---- MODULE Spec2Model ----
(***************************************************************************)
(* Board state synchronisation of agor: the board repository's atomic      *)
(* object operations, the boards service hook that routes _action patches  *)
(* and emits 'patched', the 'everybody' channel, the useAgorData board     *)
(* subscription and the SessionCanvas reconciliation / debounce logic.     *)
(***************************************************************************)
EXTENDS Integers, Sequences, FiniteSets, TLC

VARIABLES
    store,           \* boards table: board id -> [objects, layout]
    reqs,            \* boards.patch calls in flight (request, server position, response)
    nextRid,         \* number of patch calls issued so far
    patched,         \* 'patched' events emitted by the boards service: [count, board]
    connected,       \* connections joined to the 'everybody' channel
    inbox,           \* per client: 'patched' events published and not yet handled
    boards,          \* per client: useAgorData boards state (board id -> board)
    repo,            \* last direct BoardRepository call: [op, bid, objectId, objects, before, err]
    nodes,           \* per client: React Flow nodes state (id -> node)
    localPositionsRef,     \* per client: positions set by the client's own drags
    deletedObjectsRef,     \* per client: ids the client deleted
    timers,          \* pending setTimeout timers of all clients, in the order they were set
    pendingLayoutUpdatesRef,   \* per client: buffered drag positions
    layoutUpdateTimerRef,      \* per client: the drag debounce timer and what its callback closed over
    pendingResizeUpdatesRef,   \* per client: buffered zone sizes
    resizeTimerRef,  \* per client: the resize debounce timer and what its callback closed over
    isDraggingRef,   \* per client
    dragging,        \* per client: the node of the drag gesture in progress, if any
    isSyncingRef,    \* per client
    gestures,        \* number of user gestures started so far
    removedIds,      \* history: object ids whose removeObject the server has written
    pinnedFrom,      \* history: per session, the absolute position it was pinned at
    removal,         \* the sessions 'removed' callback of the daemon: [session, boards, phase]
    resized,         \* history: per client, the size it last buffered for each zone
    everDeleted      \* history: per client, the ids it has deleted locally

service == <<store, reqs, nextRid, patched, connected, inbox, boards, repo>>

canvas == <<nodes, localPositionsRef, deletedObjectsRef, timers,
            pendingLayoutUpdatesRef, layoutUpdateTimerRef, pendingResizeUpdatesRef,
            resizeTimerRef, isDraggingRef, dragging, isSyncingRef,
            gestures, everDeleted>>

rest == <<pinnedFrom, removal, resized>>

vars == <<service, canvas, removedIds, rest>>

----------------------------------------------------------------------------
(* Bounds and value sets *)

MaxRequests == 2

Clients == {"c1", "c2"}
ZoneIds == {"z1", "z2"}
SessIds == {"s1", "s2"}
StoredBoards == {"b1", "b2"}
MissingBoard == "b0"
BoardIds == StoredBoards \cup {MissingBoard}
TheBoard == "b1"

Pos(x, y) == [x |-> x, y |-> y]

\* BoardObject (ZoneBoardObject / TextBoardObject); a text object keeps its
\* content in label.
Zone(x, y, w, h) ==
    [type |-> "zone", x |-> x, y |-> y, width |-> w, height |-> h, label |-> "New Zone"]
Text(x, y) ==
    [type |-> "text", x |-> x, y |-> y, width |-> 0, height |-> 0, label |-> "note"]

ObjData == {Zone(0, 0, 200, 200), Text(40, 40)}

\* partial maps id -> value
PartialMaps(D, R) == UNION {[S -> R] : S \in SUBSET D}

EmptyMap == [i \in {} |-> 0]

Board(objects, layout) == [objects |-> objects, layout |-> layout]

EmptyBoard == Board(EmptyMap, EmptyMap)

----------------------------------------------------------------------------
(* BoardRepository *)

\* { ...a, ...b }
Spread(a, b) == b @@ a

\* const o = { ...a }; delete o[k]
Delete(a, k) == [i \in DOMAIN a \ {k} |-> a[i]]

\* resolveId + findById: the stored board as a set of at most one (null is {})
findById(st, boardId) == IF boardId \in DOMAIN st THEN {st[boardId]} ELSE {}

\* if (!current) throw new EntityNotFoundError('Board', boardId)
neverNotFound(current) == "none"

notFound(current) == IF current = {} THEN "EntityNotFoundError" ELSE "none"

TheOne(current) == IF current = {} THEN EmptyBoard ELSE CHOOSE b \in current : TRUE

\* BoardRepository.update(fullId, { field: value }): the stored board with the
\* given fields replaced
update(st, fullId, updates) == [st EXCEPT ![fullId] = Spread(@, updates)]

\* the objects each operation hands to update(), computed from the board it read
upsertBoardObjectAlone(current, objectId, objectData) ==
    [objects |-> objectId :> objectData]

upsertBoardObject(current, objectId, objectData) ==
    [objects |-> Spread(current.objects, objectId :> objectData)]

removeBoardObjectClears(current, objectId) ==
    [objects |-> IF objectId \in DOMAIN current.objects
                 THEN Delete(current.objects, objectId) ELSE EmptyMap]

removeBoardObject(current, objectId) ==
    [objects |-> Delete(current.objects, objectId)]

batchUpsertBoardObjectsKeepsOld(current, objects) ==
    [objects |-> Spread(objects, current.objects)]

batchUpsertBoardObjects(current, objects) ==
    [objects |-> Spread(current.objects, objects)]

----------------------------------------------------------------------------
(* Direct repository calls, one at a time (no other mutation interleaves) *)

NoCall ==
    [op |-> "none", bid |-> TheBoard, objectId |-> "z1", objects |-> EmptyMap,
     before |-> [b \in {} |-> EmptyBoard], err |-> "none",
     prev |-> [op |-> "none", bid |-> TheBoard, objectId |-> "z1"]]

Call(op, boardId, objectId, objects, err) ==
    [op |-> op, bid |-> boardId, objectId |-> objectId, objects |-> objects,
     before |-> store, err |-> err,
     prev |-> [op |-> repo.op, bid |-> repo.bid, objectId |-> repo.objectId]]

\* await repo.upsertBoardObject(boardId, objectId, objectData)
RepoUpsert(boardId, objectId, objectData) ==
    LET current == findById(store, boardId)
        err == notFound(current)
    IN  /\ repo' = Call("upsert", boardId, objectId, objectId :> objectData, err)
        /\ store' = IF err # "none" THEN store
                    ELSE update(store, boardId,
                                upsertBoardObject(TheOne(current), objectId, objectData))
        /\ UNCHANGED <<reqs, nextRid, patched, connected, inbox, boards, canvas, removedIds, rest>>

\* await repo.removeBoardObject(boardId, objectId)
RepoRemove(boardId, objectId) ==
    LET current == findById(store, boardId)
        err == notFound(current)
    IN  /\ repo' = Call("remove", boardId, objectId, EmptyMap, err)
        /\ store' = IF err # "none" THEN store
                    ELSE update(store, boardId, removeBoardObject(TheOne(current), objectId))
        /\ UNCHANGED <<reqs, nextRid, patched, connected, inbox, boards, canvas, removedIds, rest>>

\* await repo.batchUpsertBoardObjects(boardId, objects)
RepoBatch(boardId, objects) ==
    LET current == findById(store, boardId)
        err == notFound(current)
    IN  /\ repo' = Call("batch", boardId, "z1", objects, err)
        /\ store' = IF err # "none" THEN store
                    ELSE update(store, boardId,
                                batchUpsertBoardObjects(TheOne(current), objects))
        /\ UNCHANGED <<reqs, nextRid, patched, connected, inbox, boards, canvas, removedIds, rest>>

----------------------------------------------------------------------------
(* The boards service: patch requests, the _action hook, 'patched' events *)

Actions == {"upsertObject", "removeObject", "batchUpsertObjects"}

NoCont == [kind |-> "none", updates |-> EmptyMap, board |-> EmptyBoard]

\* client.service('boards').patch(boardId, data), as sent
\* (moved: the ids whose entries the caller changed in layout; cont: what the
\* caller does once the call settles)
Request(from, action, boardId, objectId, objectData, objects, layout, moved, cont) ==
    [from |-> from, action |-> action, bid |-> boardId,
     objectId |-> objectId, objectData |-> objectData, objects |-> objects,
     layout |-> layout, moved |-> moved, cont |-> cont, nth |-> 0,
     phase |-> "sent", current |-> EmptyBoard]

\* what was sent, without the server's position in it
Sent(r) == [r EXCEPT !.nth = 0, !.phase = "sent", !.current = EmptyBoard]

\* a call in flight is told apart from an equal one by nth
Issue(rs, q) ==
    LET used == {r.nth : r \in {x \in rs : Sent(x) = q}}
        n == CHOOSE k \in 0..Cardinality(used) : k \notin used
    IN  rs \cup {[q EXCEPT !.nth = n]}

Replace(rs, r, r2) == (rs \ {r}) \cup {r2}

\* the fields the hook's repository call writes, from the board that call read
hookUpdates(r) ==
    CASE r.action = "upsertObject" -> upsertBoardObject(r.current, r.objectId, r.objectData)
      [] r.action = "removeObject" -> removeBoardObject(r.current, r.objectId)
      [] r.action = "batchUpsertObjects" -> batchUpsertBoardObjects(r.current, r.objects)

\* app.service('boards').emit('patched', result)
emitNothing(p, boardId, result) == p

emitPatched(p, boardId, result) ==
    [count |-> p.count + 1, bid |-> boardId, board |-> result]

\* app.publish(() => app.channel('everybody')): one event to every joined connection
publishToOne(ib, conn, ev) ==
    [c \in Clients |-> IF c \in conn /\ c = (CHOOSE d \in conn : TRUE)
                       THEN Append(ib[c], ev) ELSE ib[c]]

publish(ib, conn, ev) ==
    [c \in Clients |-> IF c \in conn THEN Append(ib[c], ev) ELSE ib[c]]

\* const fullId = await this.resolveId(boardId); const current = await this.findById(fullId)
ServerRead(r) ==
    /\ r \in reqs
    /\ r.phase = "sent"
    /\ r.action \in Actions
    /\ LET current == findById(store, r.bid)
       IN  IF notFound(current) = "none"
           THEN reqs' = Replace(reqs, r, [r EXCEPT !.phase = "read",
                                                   !.current = TheOne(current)])
           ELSE reqs' = Replace(reqs, r, [r EXCEPT !.phase = "failed"])
    /\ UNCHANGED <<store, nextRid, patched, connected, inbox, boards, repo, canvas, removedIds, rest>>

\* return this.update(fullId, { objects: updatedObjects }); context.result = result;
\* app.service('boards').emit('patched', result)
ServerWrite(r) ==
    /\ r \in reqs
    /\ r.phase = "read"
    /\ store' = update(store, r.bid, hookUpdates(r))
    /\ patched' = emitPatched(patched, r.bid, store'[r.bid])
    /\ inbox' = publish(inbox, connected, patched')
    /\ reqs' = Replace(reqs, r, [r EXCEPT !.phase = "ok"])
    /\ removedIds' = IF r.action = "removeObject" THEN removedIds \cup {r.objectId}
                                                  ELSE removedIds
    /\ UNCHANGED rest
    /\ UNCHANGED <<nextRid, connected, boards, repo, canvas>>

\* update() rejects (storage failure): the hook throws before emit
ServerWriteFails(r) ==
    /\ r \in reqs
    /\ r.phase = "read"
    /\ reqs' = Replace(reqs, r, [r EXCEPT !.phase = "failed"])
    /\ UNCHANGED <<store, nextRid, patched, connected, inbox, boards, repo, canvas, removedIds, rest>>

\* patch(boardId, { layout }) without _action: the hook returns the context and
\* the service's own patch writes the given fields and emits 'patched'
ServerPatch(r) ==
    /\ r \in reqs
    /\ r.phase = "sent"
    /\ r.action = "patch"
    /\ IF notFound(findById(store, r.bid)) = "none"
       THEN /\ store' = update(store, r.bid, [layout |-> r.layout])
            /\ patched' = emitPatched(patched, r.bid, store'[r.bid])
            /\ inbox' = publish(inbox, connected, patched')
            /\ reqs' = Replace(reqs, r, [r EXCEPT !.phase = "ok"])
       ELSE /\ reqs' = Replace(reqs, r, [r EXCEPT !.phase = "failed"])
            /\ UNCHANGED <<store, patched, inbox>>
    /\ UNCHANGED <<nextRid, connected, boards, repo, canvas, removedIds, rest>>

\* app.on('connection', connection => app.channel('everybody').join(connection))
Connect(c) ==
    /\ c \notin connected
    /\ connected' = connected \cup {c}
    /\ UNCHANGED <<store, reqs, nextRid, patched, inbox, boards, repo, canvas, removedIds, rest>>

\* the socket closes: the connection leaves the channel, events in flight are lost
Disconnect(c) ==
    /\ c \in connected
    /\ connected' = connected \ {c}
    /\ inbox' = [inbox EXCEPT ![c] = <<>>]
    /\ UNCHANGED <<store, reqs, nextRid, patched, boards, repo, canvas, removedIds, rest>>

----------------------------------------------------------------------------
(* useAgorData: the board subscription of a client *)

\* setBoards(prev => prev.map(b => (b.board_id === board.board_id ? board : b)))
handleBoardPatched(prev, ev) ==
    [b \in DOMAIN prev |-> IF b = ev.bid THEN ev.board ELSE prev[b]]

\* the pending setTimeout timers of all clients in the order they were set;
\* id names the object of a deleteObject timer
TimerOf(kind, c, id) == [kind |-> kind, c |-> c, id |-> id]

\* the delay given to setTimeout, in ms
Delay(kind) ==
    CASE kind = "sync" -> 100
      [] kind = "layout" -> 500
      [] kind = "resize" -> 500
      [] kind = "delete" -> 1000
      [] kind = "measure" -> 0

\* a timer fires after every timer that was set before it with at most its delay
Due(q, i) == \A j \in 1..(i - 1) : Delay(q[j].kind) > Delay(q[i].kind)

Fired(q, i) == [k \in 1..(Len(q) - 1) |-> IF k < i THEN q[k] ELSE q[k + 1]]

\* clearTimeout
notCleared(q, kind, c) == q

Cleared(q, kind, c) ==
    LET Other(t) == ~(t.kind = kind /\ t.c = c)
    IN  SelectSeq(q, Other)

\* boardsService.on('patched', handleBoardPatched)
OnPatched(c) ==
    /\ inbox[c] # <<>>
    /\ boards' = [boards EXCEPT ![c] = handleBoardPatched(@, Head(inbox[c]))]
    /\ inbox' = [inbox EXCEPT ![c] = Tail(@)]
    /\ UNCHANGED <<store, reqs, nextRid, patched, connected, repo, canvas, removedIds, rest>>

----------------------------------------------------------------------------
(* A client of the service that only issues patch calls *)

\* the payloads the clients send: for each kind of call one on a fresh id, one on
\* an id the board holds, and one on a board that is not stored
UpsertPayloads == {<<TheBoard, "z1", Text(40, 40)>>, <<MissingBoard, "z1", Text(40, 40)>>}

RemovePayloads == {<<TheBoard, "z2">>, <<MissingBoard, "z2">>}

BatchPayloads ==
    {<<TheBoard, ("z1" :> Zone(0, 0, 200, 200)) @@ ("z2" :> Text(40, 40))>>,
     <<MissingBoard, "z1" :> Text(40, 40)>>}

LayoutPayloads == {<<TheBoard, "s1" :> Pos(20, 0)>>}

Send(c, action, boardId, objectId, objectData, objects, layout) ==
    /\ nextRid < MaxRequests
    /\ nextRid' = nextRid + 1
    /\ reqs' = Issue(reqs, Request(c, action, boardId, objectId, objectData,
                                   objects, layout, DOMAIN layout, NoCont))
    /\ UNCHANGED <<store, patched, connected, inbox, boards, repo, canvas, removedIds, rest>>

PatchUpsertObject(c, boardId, objectId, objectData) ==
    Send(c, "upsertObject", boardId, objectId, objectData, EmptyMap, EmptyMap)

PatchRemoveObject(c, boardId, objectId) ==
    Send(c, "removeObject", boardId, objectId, Zone(0, 0, 0, 0), EmptyMap, EmptyMap)

PatchBatchUpsertObjects(c, boardId, objects) ==
    Send(c, "batchUpsertObjects", boardId, "z1", Zone(0, 0, 0, 0), objects, EmptyMap)

PatchLayout(c, boardId, layout) ==
    Send(c, "patch", boardId, "z1", Zone(0, 0, 0, 0), EmptyMap, layout)

\* the promise of a patch call settles at its caller
Settle(r) ==
    /\ r \in reqs
    /\ r.phase \in {"ok", "failed"}
    /\ reqs' = reqs \ {r}
    /\ UNCHANGED <<store, nextRid, patched, connected, inbox, boards, repo, canvas, removedIds, rest>>

----------------------------------------------------------------------------
(* SessionCanvas and useBoardObjects: one canvas per client, on TheBoard *)

MaxGestures == 2

DragTargets == {Pos(20, 0), Pos(40, 20)}

Sizes == {[width |-> 300, height |-> 250], [width |-> 250, height |-> 400]}

NoNode == "none"

Abs(i) == IF i < 0 THEN -i ELSE i

Restrict(f, S) == [i \in DOMAIN f \cap S |-> f[i]]

\* the auto-layout of two root sessions: x = index * HORIZONTAL_SPACING * 2, y = currentY
autoPosition == ("s1" :> Pos(0, 0)) @@ ("s2" :> Pos(1000, 450))

\* session nodes: the stored position from board.layout if there is one
initialNodes(board) ==
    [s \in SessIds |->
        [type |-> "sessionNode",
         position |-> IF s \in DOMAIN board.layout
                      THEN Pos(board.layout[s].x, board.layout[s].y)
                      ELSE autoPosition[s],
         width |-> 0, height |-> 0, selected |-> FALSE]]

\* board object nodes: position { x: objectData.x, y: objectData.y }
getBoardObjectNodes(board) ==
    [o \in DOMAIN board.objects |->
        [type |-> board.objects[o].type,
         position |-> Pos(board.objects[o].x, board.objects[o].y),
         width |-> board.objects[o].width, height |-> board.objects[o].height,
         selected |-> FALSE]]

allNodes(board) == Spread(initialNodes(board), getBoardObjectNodes(board))

positionChanged(localPositions, id, incomingPosition) ==
    /\ id \in DOMAIN localPositions
    /\ \/ Abs(localPositions[id].x - incomingPosition.x) > 1
       \/ Abs(localPositions[id].y - incomingPosition.y) > 1

\* the setNodes updater, keeping the local position of a node whose position changed
syncNodesKeepsLocal(currentNodes, incoming, localPositions, deleted) ==
    [id \in DOMAIN incoming \ deleted |->
        LET newNode == incoming[id]
            selected == IF id \in DOMAIN currentNodes THEN currentNodes[id].selected
                                                      ELSE FALSE
        IN  IF id \in DOMAIN localPositions
            THEN [newNode EXCEPT !.position = localPositions[id],
                                 !.selected = selected]
            ELSE [newNode EXCEPT !.selected = selected]]

\* the setNodes updater without the filter on deletedObjectsRef
syncNodesUnfiltered(currentNodes, incoming, localPositions, deleted) ==
    [id \in DOMAIN incoming |->
        LET newNode == incoming[id]
            selected == IF id \in DOMAIN currentNodes THEN currentNodes[id].selected
                                                      ELSE FALSE
        IN  IF positionChanged(localPositions, id, newNode.position)
            THEN [newNode EXCEPT !.selected = selected]
            ELSE IF id \in DOMAIN localPositions
                 THEN [newNode EXCEPT !.position = localPositions[id],
                                      !.selected = selected]
                 ELSE [newNode EXCEPT !.selected = selected]]

\* the setNodes updater keeping the current nodes that are not incoming
syncNodesKeepsAbsent(currentNodes, incoming, localPositions, deleted) ==
    [id \in (DOMAIN incoming \cup DOMAIN currentNodes) \ deleted |->
        IF id \notin DOMAIN incoming THEN currentNodes[id]
        ELSE LET newNode == incoming[id]
                 selected == IF id \in DOMAIN currentNodes THEN currentNodes[id].selected
                                                           ELSE FALSE
             IN  IF positionChanged(localPositions, id, newNode.position)
                 THEN [newNode EXCEPT !.selected = selected]
                 ELSE IF id \in DOMAIN localPositions
                      THEN [newNode EXCEPT !.position = localPositions[id],
                                           !.selected = selected]
                      ELSE [newNode EXCEPT !.selected = selected]]

\* the setNodes updater returning the incoming nodes as they are built
syncNodesDropsSelection(currentNodes, incoming, localPositions, deleted) ==
    [id \in DOMAIN incoming \ deleted |->
        LET newNode == incoming[id]
        IN  IF positionChanged(localPositions, id, newNode.position)
            THEN newNode
            ELSE IF id \in DOMAIN localPositions
                 THEN [newNode EXCEPT !.position = localPositions[id]]
                 ELSE newNode]

\* the setNodes updater of the sync effect
syncNodes(currentNodes, incoming, localPositions, deleted) ==
    [id \in DOMAIN incoming \ deleted |->
        LET newNode == incoming[id]
            selected == IF id \in DOMAIN currentNodes THEN currentNodes[id].selected
                                                      ELSE FALSE
        IN  IF positionChanged(localPositions, id, newNode.position)
            THEN [newNode EXCEPT !.selected = selected]
            ELSE IF id \in DOMAIN localPositions
                 THEN [newNode EXCEPT !.position = localPositions[id],
                                      !.selected = selected]
                 ELSE [newNode EXCEPT !.selected = selected]]

\* delete localPositionsRef.current[newNode.id] for every node whose position changed
syncLocalPositions(incoming, localPositions, deleted) ==
    Restrict(localPositions,
             {id \in DOMAIN localPositions :
                 ~(/\ id \in DOMAIN incoming \ deleted
                   /\ positionChanged(localPositions, id, incoming[id].position))})

\* two 'patched' events reach the client's listener newer first
Overtake(c) ==
    /\ Len(inbox[c]) >= 2
    /\ inbox[c][1] # inbox[c][2]
    /\ inbox' = [inbox EXCEPT ![c] = <<@[2], @[1]>> \o SubSeq(@, 3, Len(@))]
    /\ UNCHANGED <<store, reqs, nextRid, patched, connected, boards, repo, canvas,
                   removedIds, rest>>

\* the 'dimensions' changes React Flow has to report after setNodes: one for
\* every zone node that is new or whose size changed, in the order of the ids
Reports(c, before, after) ==
    LET Changed(z) ==
            /\ z \in DOMAIN after
            /\ after[z].type = "zone"
            /\ \/ z \notin DOMAIN before
               \/ <<before[z].width, before[z].height>> #
                     <<after[z].width, after[z].height>>
        ToReport(z) == TimerOf("measure", c, z)
    IN  [i \in 1..Len(SelectSeq(<<"z1", "z2">>, Changed)) |->
            ToReport(SelectSeq(<<"z1", "z2">>, Changed)[i])]

\* ZoneNodeData of a board object node: objectId and x, y, width, height,
\* label, color, status of the object
zoneNodeData(objectId, objectData) ==
    Spread("objectId" :> objectId,
           Restrict(objectData, {"x", "y", "width", "height", "label", "color", "status"}))

\* the value JavaScript reads from a key an object does not have
Undefined == "undefined"

Field(o, k) == IF k \in DOMAIN o THEN o[k] ELSE Undefined

\* the board object nodes with their data
getBoardObjectNodesWithData(board) ==
    [o \in DOMAIN board.objects |->
        [type |-> board.objects[o].type,
         position |-> Pos(Field(board.objects[o], "x"), Field(board.objects[o], "y")),
         width |-> board.objects[o].width, height |-> board.objects[o].height,
         selected |-> FALSE,
         data |-> zoneNodeData(o, board.objects[o])]]

\* boardsService.on('patched', ...) followed by the sync effect of the canvas;
\* with measured, React Flow's reports of the sizes it rendered are queued
\* and come within the 100 ms of this run; with withData, the board object
\* nodes are built with their data
OnPatchedThenSync(c, measured, withData) ==
    /\ inbox[c] # <<>>
    /\ boards' = [boards EXCEPT ![c] = handleBoardPatched(@, Head(inbox[c]))]
    /\ inbox' = [inbox EXCEPT ![c] = Tail(@)]
    /\ IF isDraggingRef[c]
       THEN UNCHANGED <<nodes, localPositionsRef, isSyncingRef, timers>>
       ELSE LET incoming == IF withData
                            THEN Spread(initialNodes(boards'[c][TheBoard]),
                                        getBoardObjectNodesWithData(boards'[c][TheBoard]))
                            ELSE allNodes(boards'[c][TheBoard])
            IN  /\ isSyncingRef' = [isSyncingRef EXCEPT ![c] = TRUE]
                /\ nodes' = [nodes EXCEPT ![c] =
                      syncNodes(@, incoming, localPositionsRef[c], deletedObjectsRef[c])]
                /\ localPositionsRef' = [localPositionsRef EXCEPT ![c] =
                      syncLocalPositions(incoming, @, deletedObjectsRef[c])]
                /\ timers' = Append(timers \o (IF measured
                                               THEN Reports(c, nodes[c], nodes'[c])
                                               ELSE <<>>),
                                    TimerOf("sync", c, NoNode))
    /\ UNCHANGED <<store, reqs, nextRid, patched, connected, repo, removedIds, rest,
                   deletedObjectsRef, pendingLayoutUpdatesRef,
                   layoutUpdateTimerRef, pendingResizeUpdatesRef, resizeTimerRef,
                   isDraggingRef, dragging, gestures, everDeleted>>

OnPatchedSync(c) == OnPatchedThenSync(c, FALSE, FALSE)

OnPatchedSyncMeasured(c) == OnPatchedThenSync(c, TRUE, FALSE)

OnPatchedSyncWithData(c) == OnPatchedThenSync(c, FALSE, TRUE)

\* setTimeout(() => { isSyncingRef.current = false }, 100)
SyncTimerFires(c) ==
    /\ \E i \in DOMAIN timers :
          /\ timers[i] = TimerOf("sync", c, NoNode)
          /\ Due(timers, i)
          /\ timers' = Fired(timers, i)
    /\ isSyncingRef' = [isSyncingRef EXCEPT ![c] = FALSE]
    /\ UNCHANGED <<service, removedIds, rest, nodes, localPositionsRef, deletedObjectsRef,
                   pendingLayoutUpdatesRef, layoutUpdateTimerRef,
                   pendingResizeUpdatesRef, resizeTimerRef, isDraggingRef, dragging,
                   gestures, everDeleted>>

NoTimer == [armed |-> FALSE, board |-> EmptyBoard, zones |-> {}]

\* a 500 ms timer set now, its callback closing over the board and the nodes of
\* this render
Timer(board, ns) ==
    [armed |-> TRUE, board |-> board, zones |-> {n \in DOMAIN ns : ns[n].type = "zone"}]

Call1(c, q) ==
    /\ reqs' = Issue(reqs, q)
    /\ nextRid' = nextRid + 1

UpsertObject(c, objectId, objectData, cont) ==
    Request(c, "upsertObject", TheBoard, objectId, objectData, EmptyMap, EmptyMap, {}, cont)

RemoveObject(c, objectId, cont) ==
    Request(c, "removeObject", TheBoard, objectId, Zone(0, 0, 0, 0), EmptyMap, EmptyMap, {}, cont)

BatchUpsertObjects(c, objects) ==
    Request(c, "batchUpsertObjects", TheBoard, "z1", Zone(0, 0, 0, 0), objects, EmptyMap, {},
            NoCont)

PatchLayoutOf(c, layout, moved, cont) ==
    Request(c, "patch", TheBoard, "z1", Zone(0, 0, 0, 0), EmptyMap, layout, moved, cont)

MaxSelected == 1

\* the nodes shown as selected, over all canvases
Selected == {cn \in Clients \X (SessIds \cup ZoneIds) :
                cn[2] \in DOMAIN nodes[cn[1]] /\ nodes[cn[1]][cn[2]].selected}

\* onNodesChangeInternal with a 'select' change: the user selects or
\* deselects a node
Select(c, n, v) ==
    /\ n \in DOMAIN nodes[c]
    /\ nodes[c][n].selected # v
    /\ v => Cardinality(Selected) < MaxSelected
    /\ nodes' = [nodes EXCEPT ![c][n].selected = v]
    /\ UNCHANGED <<service, removedIds, rest, localPositionsRef, deletedObjectsRef,
                   timers, pendingLayoutUpdatesRef, layoutUpdateTimerRef,
                   pendingResizeUpdatesRef, resizeTimerRef, isDraggingRef, dragging,
                   isSyncingRef, gestures, everDeleted>>

\* handleNodeDragStart
DragStart(c, n) ==
    /\ gestures < MaxGestures
    /\ dragging[c] = NoNode
    /\ n \in DOMAIN nodes[c]
    /\ gestures' = gestures + 1
    /\ dragging' = [dragging EXCEPT ![c] = n]
    /\ isDraggingRef' = [isDraggingRef EXCEPT ![c] = TRUE]
    /\ UNCHANGED <<service, removedIds, rest, nodes, localPositionsRef, deletedObjectsRef,
                   timers, pendingLayoutUpdatesRef, layoutUpdateTimerRef,
                   pendingResizeUpdatesRef, resizeTimerRef, isSyncingRef, everDeleted>>

\* the pointer moves the node (React Flow applies the position change), handleNodeDrag
Drag(c, p) ==
    LET n == dragging[c]
    IN  /\ n # NoNode
        /\ n \in DOMAIN nodes[c]
        /\ nodes[c][n].position # p
        /\ nodes' = [nodes EXCEPT ![c][n].position = p]
        /\ localPositionsRef' = [localPositionsRef EXCEPT ![c] = Spread(@, n :> p)]
        /\ UNCHANGED <<service, removedIds, rest, deletedObjectsRef, timers,
                       pendingLayoutUpdatesRef, layoutUpdateTimerRef,
                       pendingResizeUpdatesRef, resizeTimerRef, isDraggingRef, dragging,
                       isSyncingRef, gestures, everDeleted>>

\* handleNodeDragStop (board and client are set)
DragStop(c) ==
    LET n == dragging[c]
    IN  /\ n # NoNode
        /\ n \in DOMAIN nodes[c]
        /\ dragging' = [dragging EXCEPT ![c] = NoNode]
        /\ localPositionsRef' =
              [localPositionsRef EXCEPT ![c] = Spread(@, n :> nodes[c][n].position)]
        /\ pendingLayoutUpdatesRef' =
              [pendingLayoutUpdatesRef EXCEPT ![c] = Spread(@, n :> nodes[c][n].position)]
        /\ layoutUpdateTimerRef' =
              [layoutUpdateTimerRef EXCEPT ![c] = Timer(boards[c][TheBoard], nodes[c])]
        /\ timers' = Append(Cleared(timers, "layout", c), TimerOf("layout", c, NoNode))
        /\ UNCHANGED <<service, removedIds, rest, nodes, deletedObjectsRef,
                       pendingResizeUpdatesRef, resizeTimerRef, isDraggingRef,
                       isSyncingRef, gestures, everDeleted>>

\* handleNodeDragStop: with the board or the client prop null (ready is false)
\* it returns at once, otherwise it buffers the position and sets the timer
handleNodeDragStop(c, ready) ==
    IF ready
    THEN DragStop(c)
    ELSE /\ dragging[c] # NoNode
         /\ dragging' = [dragging EXCEPT ![c] = NoNode]
         /\ UNCHANGED <<service, removedIds, rest, nodes, localPositionsRef,
                        deletedObjectsRef, timers, pendingLayoutUpdatesRef,
                        layoutUpdateTimerRef, pendingResizeUpdatesRef, resizeTimerRef,
                        isDraggingRef, isSyncingRef, gestures, everDeleted>>

\* batchUpdateObjectPositions(updates): the objects of the batchUpsertObjects call
batchUpdateObjectPositions(updates, board, deleted) ==
    [o \in {k \in DOMAIN updates : k \notin deleted /\ k \in DOMAIN board.objects} |->
        [board.objects[o] EXCEPT !.x = updates[o].x, !.y = updates[o].y]]

\* the callback of the drag debounce timer, up to its first await
LayoutTimerFires(c) ==
    LET t == layoutUpdateTimerRef[c]
        updates == pendingLayoutUpdatesRef[c]
        objectUpdates == Restrict(updates, t.zones)
        sessionUpdates == Restrict(updates, DOMAIN updates \ t.zones)
        after == IF DOMAIN objectUpdates = {} THEN NoCont
                 ELSE [kind |-> "batch", updates |-> objectUpdates, board |-> t.board]
    IN  /\ \E i \in DOMAIN timers :
              /\ timers[i] = TimerOf("layout", c, NoNode)
              /\ Due(timers, i)
              /\ timers' = Fired(timers, i)
        /\ pendingLayoutUpdatesRef' = [pendingLayoutUpdatesRef EXCEPT ![c] = EmptyMap]
        /\ isDraggingRef' = [isDraggingRef EXCEPT ![c] = FALSE]
        /\ layoutUpdateTimerRef' = [layoutUpdateTimerRef EXCEPT ![c] = NoTimer]
        /\ IF DOMAIN sessionUpdates # {}
           THEN Call1(c, PatchLayoutOf(c, Spread(t.board.layout, sessionUpdates),
                                       DOMAIN sessionUpdates, after))
           ELSE IF DOMAIN objectUpdates # {}
                THEN Call1(c, BatchUpsertObjects(c,
                        batchUpdateObjectPositions(objectUpdates, t.board,
                                                   deletedObjectsRef[c])))
                ELSE UNCHANGED <<reqs, nextRid>>
        /\ UNCHANGED <<store, patched, connected, inbox, boards, repo, removedIds, rest, nodes,
                       localPositionsRef, deletedObjectsRef, pendingResizeUpdatesRef,
                       resizeTimerRef, dragging, isSyncingRef, gestures, everDeleted>>

\* onNodesChange with a 'dimensions' change of a zone node (the user resizes it)
Resize(c, z, d) ==
    /\ gestures < MaxGestures
    /\ z \in DOMAIN nodes[c]
    /\ nodes[c][z].type = "zone"
    /\ <<nodes[c][z].width, nodes[c][z].height>> # <<d.width, d.height>>
    /\ gestures' = gestures + 1
    /\ nodes' = [nodes EXCEPT ![c][z].width = d.width, ![c][z].height = d.height]
    /\ IF isSyncingRef[c]
       THEN UNCHANGED <<pendingResizeUpdatesRef, resizeTimerRef, timers, resized>>
       ELSE /\ pendingResizeUpdatesRef' =
                  [pendingResizeUpdatesRef EXCEPT ![c] = Spread(@, z :> d)]
            /\ resizeTimerRef' =
                  [resizeTimerRef EXCEPT ![c] = Timer(boards[c][TheBoard], nodes[c])]
            /\ timers' = Append(Cleared(timers, "resize", c),
                                 TimerOf("resize", c, NoNode))
            /\ resized' = [resized EXCEPT ![c] = Spread(@, z :> d)]
    /\ UNCHANGED <<service, removedIds, pinnedFrom, removal, localPositionsRef,
                   deletedObjectsRef,
                   pendingLayoutUpdatesRef, layoutUpdateTimerRef, isDraggingRef, dragging,
                   isSyncingRef, everDeleted>>

\* onNodesChange with the 'dimensions' change React Flow reports for a zone
\* node that the sync effect rendered
DimensionsChange(c, z) ==
    /\ \E i \in DOMAIN timers :
          /\ timers[i] = TimerOf("measure", c, z)
          /\ Due(timers, i)
          /\ IF isSyncingRef[c] \/ z \notin DOMAIN nodes[c]
             THEN /\ timers' = Fired(timers, i)
                  /\ UNCHANGED <<pendingResizeUpdatesRef, resizeTimerRef, resized>>
             ELSE LET d == [width |-> nodes[c][z].width, height |-> nodes[c][z].height]
                  IN  /\ pendingResizeUpdatesRef' =
                            [pendingResizeUpdatesRef EXCEPT ![c] = Spread(@, z :> d)]
                      /\ resizeTimerRef' =
                            [resizeTimerRef EXCEPT ![c] = Timer(boards[c][TheBoard], nodes[c])]
                      /\ timers' = Append(Cleared(Fired(timers, i), "resize", c),
                                          TimerOf("resize", c, NoNode))
                      /\ resized' = [resized EXCEPT ![c] = Spread(@, z :> d)]
    /\ UNCHANGED <<service, removedIds, pinnedFrom, removal, nodes, localPositionsRef,
                   deletedObjectsRef, pendingLayoutUpdatesRef, layoutUpdateTimerRef,
                   isDraggingRef, dragging, isSyncingRef, gestures, everDeleted>>

\* the loop of the resize flush from its next entry: the entries it passes over
\* without a call, and the upsertObject it awaits
resizeCallsOfWidth(c, updates, board) ==
    LET sendable == {k \in DOMAIN updates :
                        k \in DOMAIN board.objects /\ board.objects[k].type = "zone"}
    IN  {UpsertObject(c, k,
                      [board.objects[k] EXCEPT !.width = updates[k].width],
                      [kind |-> "resize", updates |-> Restrict(updates, sendable \ {k}),
                       board |-> board]) : k \in sendable}

resizeCalls(c, updates, board) ==
    LET sendable == {k \in DOMAIN updates :
                        k \in DOMAIN board.objects /\ board.objects[k].type = "zone"}
    IN  {UpsertObject(c, k,
                      [board.objects[k] EXCEPT !.width = updates[k].width,
                                               !.height = updates[k].height],
                      [kind |-> "resize", updates |-> Restrict(updates, sendable \ {k}),
                       board |-> board]) : k \in sendable}

\* the callback of the resize debounce timer, up to its first await
ResizeTimerFires(c) ==
    LET t == resizeTimerRef[c]
        calls == resizeCalls(c, pendingResizeUpdatesRef[c], t.board)
    IN  /\ \E i \in DOMAIN timers :
              /\ timers[i] = TimerOf("resize", c, NoNode)
              /\ Due(timers, i)
              /\ timers' = Fired(timers, i)
        /\ pendingResizeUpdatesRef' = [pendingResizeUpdatesRef EXCEPT ![c] = EmptyMap]
        /\ resizeTimerRef' = [resizeTimerRef EXCEPT ![c] = NoTimer]
        /\ IF calls = {} THEN UNCHANGED <<reqs, nextRid>>
                         ELSE \E q \in calls : Call1(c, q)
        /\ UNCHANGED <<store, patched, connected, inbox, boards, repo, removedIds, rest, nodes,
                       localPositionsRef, deletedObjectsRef, pendingLayoutUpdatesRef,
                       layoutUpdateTimerRef, isDraggingRef, dragging, isSyncingRef,
                       gestures, everDeleted>>

\* deleteObject(objectId), up to its await (eraser click on a zone node)
DeleteObject(c, z) ==
    /\ gestures < MaxGestures
    /\ z \in DOMAIN nodes[c]
    /\ nodes[c][z].type = "zone"
    /\ dragging[c] # z
    /\ gestures' = gestures + 1
    /\ deletedObjectsRef' = [deletedObjectsRef EXCEPT ![c] = @ \cup {z}]
    /\ everDeleted' = [everDeleted EXCEPT ![c] = @ \cup {z}]
    /\ nodes' = [nodes EXCEPT ![c] = Delete(@, z)]
    /\ Call1(c, RemoveObject(c, z, [kind |-> "deleted", updates |-> EmptyMap,
                                    board |-> EmptyBoard]))
    /\ UNCHANGED <<store, patched, connected, inbox, boards, repo, removedIds, rest,
                   localPositionsRef, timers, pendingLayoutUpdatesRef,
                   layoutUpdateTimerRef, pendingResizeUpdatesRef, resizeTimerRef,
                   isDraggingRef, dragging, isSyncingRef>>

\* handleNodeClick with the eraser tool: only a zone node is deleted
handleNodeClick(c, n) ==
    /\ n \in DOMAIN nodes[c]
    /\ IF nodes[c][n].type = "zone" THEN DeleteObject(c, n) ELSE UNCHANGED vars

Keys == {"Delete", "Backspace"}

\* a key handler that deletes every selected node, whatever its type
handleKeyDownAnyType(c, key) ==
    LET sel == {n \in DOMAIN nodes[c] : nodes[c][n].selected}
        zones == sel
    IN  /\ gestures < MaxGestures
        /\ key \in Keys
        /\ sel # {}
        /\ Cardinality(zones) <= 1
        /\ gestures' = gestures + 1
        /\ deletedObjectsRef' = [deletedObjectsRef EXCEPT ![c] = @ \cup zones]
        /\ everDeleted' = [everDeleted EXCEPT ![c] = @ \cup zones]
        /\ nodes' = [nodes EXCEPT ![c] = Restrict(@, DOMAIN @ \ zones)]
        /\ IF zones = {}
           THEN UNCHANGED <<reqs, nextRid>>
           ELSE \E z \in zones :
                   Call1(c, RemoveObject(c, z, [kind |-> "deleted", updates |-> EmptyMap,
                                                board |-> EmptyBoard]))
        /\ UNCHANGED <<store, patched, connected, inbox, boards, repo, removedIds, rest,
                       localPositionsRef, timers, pendingLayoutUpdatesRef,
                       layoutUpdateTimerRef, pendingResizeUpdatesRef, resizeTimerRef,
                       isDraggingRef, dragging, isSyncingRef>>

\* handleKeyDown on Delete or Backspace with nodes selected: deleteObject is
\* called for the selected zone (one zone at most is selected), and a selected
\* node of another type is left alone
handleKeyDown(c, key) ==
    LET sel == {n \in DOMAIN nodes[c] : nodes[c][n].selected}
        zones == {n \in sel : nodes[c][n].type = "zone"}
    IN  /\ gestures < MaxGestures
        /\ key \in Keys
        /\ sel # {}
        /\ Cardinality(zones) <= 1
        /\ gestures' = gestures + 1
        /\ deletedObjectsRef' = [deletedObjectsRef EXCEPT ![c] = @ \cup zones]
        /\ everDeleted' = [everDeleted EXCEPT ![c] = @ \cup zones]
        /\ nodes' = [nodes EXCEPT ![c] = Restrict(@, DOMAIN @ \ zones)]
        /\ IF zones = {}
           THEN UNCHANGED <<reqs, nextRid>>
           ELSE \E z \in zones :
                   Call1(c, RemoveObject(c, z, [kind |-> "deleted", updates |-> EmptyMap,
                                                board |-> EmptyBoard]))
        /\ UNCHANGED <<store, patched, connected, inbox, boards, repo, removedIds, rest,
                       localPositionsRef, timers, pendingLayoutUpdatesRef,
                       layoutUpdateTimerRef, pendingResizeUpdatesRef, resizeTimerRef,
                       isDraggingRef, dragging, isSyncingRef>>

\* a settling that empties the buffers once the flush's call has returned
SettledEmptiesBuffers(c, r) ==
    /\ r \in reqs
    /\ r.from = c
    /\ r.phase \in {"ok", "failed"}
    /\ CASE r.cont.kind = "batch" /\ r.phase = "ok" ->
                \* await batchUpdateObjectPositions(objectUpdates)
                /\ reqs' = Issue(reqs \ {r}, BatchUpsertObjects(c,
                              batchUpdateObjectPositions(r.cont.updates, r.cont.board,
                                                         deletedObjectsRef[c])))
                /\ nextRid' = nextRid + 1
                /\ UNCHANGED timers
         [] r.cont.kind = "resize" ->
                \* the next entry of the resize loop (a failed call is caught and logged)
                LET calls == resizeCalls(c, r.cont.updates, r.cont.board)
                IN  /\ IF calls = {}
                       THEN reqs' = reqs \ {r} /\ UNCHANGED nextRid
                       ELSE \E q \in calls : /\ reqs' = Issue(reqs \ {r}, q)
                                             /\ nextRid' = nextRid + 1
                    /\ UNCHANGED timers
         [] r.cont.kind = "deleted" /\ r.phase = "ok" ->
                \* setTimeout(() => deletedObjectsRef.current.delete(objectId), 1000)
                /\ timers' = Append(timers, TimerOf("delete", c, r.objectId))
                /\ reqs' = reqs \ {r}
                /\ UNCHANGED nextRid
         [] OTHER ->
                /\ reqs' = reqs \ {r}
                /\ UNCHANGED <<nextRid, timers>>
    /\ pendingLayoutUpdatesRef' = [pendingLayoutUpdatesRef EXCEPT ![c] = EmptyMap]
    /\ pendingResizeUpdatesRef' = [pendingResizeUpdatesRef EXCEPT ![c] = EmptyMap]
    /\ UNCHANGED <<store, patched, connected, inbox, boards, repo, removedIds, rest, nodes,
                   localPositionsRef, deletedObjectsRef, layoutUpdateTimerRef,
                   resizeTimerRef, isDraggingRef, dragging, isSyncingRef, gestures,
                   everDeleted>>

\* a patch call of the canvas settles and the code after its await runs
Settled(c, r) ==
    /\ r \in reqs
    /\ r.from = c
    /\ r.phase \in {"ok", "failed"}
    /\ CASE r.cont.kind = "batch" /\ r.phase = "ok" ->
                \* await batchUpdateObjectPositions(objectUpdates)
                /\ reqs' = Issue(reqs \ {r}, BatchUpsertObjects(c,
                              batchUpdateObjectPositions(r.cont.updates, r.cont.board,
                                                         deletedObjectsRef[c])))
                /\ nextRid' = nextRid + 1
                /\ UNCHANGED timers
         [] r.cont.kind = "resize" ->
                \* the next entry of the resize loop (a failed call is caught and logged)
                LET calls == resizeCalls(c, r.cont.updates, r.cont.board)
                IN  /\ IF calls = {}
                       THEN reqs' = reqs \ {r} /\ UNCHANGED nextRid
                       ELSE \E q \in calls : /\ reqs' = Issue(reqs \ {r}, q)
                                             /\ nextRid' = nextRid + 1
                    /\ UNCHANGED timers
         [] r.cont.kind = "deleted" /\ r.phase = "ok" ->
                \* setTimeout(() => deletedObjectsRef.current.delete(objectId), 1000)
                /\ timers' = Append(timers, TimerOf("delete", c, r.objectId))
                /\ reqs' = reqs \ {r}
                /\ UNCHANGED nextRid
         [] OTHER ->
                /\ reqs' = reqs \ {r}
                /\ UNCHANGED <<nextRid, timers>>
    /\ UNCHANGED <<store, patched, connected, inbox, boards, repo, removedIds, rest, nodes,
                   localPositionsRef, deletedObjectsRef, pendingLayoutUpdatesRef,
                   layoutUpdateTimerRef, pendingResizeUpdatesRef, resizeTimerRef,
                   isDraggingRef, dragging, isSyncingRef, gestures, everDeleted>>

\* the 1000 ms timer of deleteObject fires
DeleteTimerFires(c, z) ==
    /\ \E i \in DOMAIN timers :
          /\ timers[i] = TimerOf("delete", c, z)
          /\ Due(timers, i)
          /\ timers' = Fired(timers, i)
    /\ deletedObjectsRef' = [deletedObjectsRef EXCEPT ![c] = @ \ {z}]
    /\ UNCHANGED <<service, removedIds, rest, nodes, localPositionsRef,
                   pendingLayoutUpdatesRef, layoutUpdateTimerRef,
                   pendingResizeUpdatesRef, resizeTimerRef, isDraggingRef, dragging,
                   isSyncingRef, gestures, everDeleted>>

----------------------------------------------------------------------------
(* ZoneNode: label and color edits, and zones drawn on the canvas *)

Labels == {"New Zone", "Backlog"}

Colors == {"#d9d9d9", "#1677ff"}

ZoneFields == {"type", "x", "y", "width", "height", "label", "color", "status", "trigger"}

\* stored zones with their optional fields (color, status, trigger)
ZoneObjects ==
    {Spread(Zone(400, 0, 200, 200), opt) :
        opt \in {"color" :> "#d9d9d9",
                 ("color" :> "#1677ff") @@ ("status" :> "active"),
                 ("color" :> "#d9d9d9") @@
                     ("trigger" :> [type |-> "prompt", text |-> "review"])}}

\* createObjectData(overrides): type 'zone', the x, y, width, height, label,
\* color and status of the node data (a key whose value is undefined is not
\* sent), then the overrides
createObjectData(data, overrides) ==
    Spread(Spread("type" :> "zone",
                  Restrict(data, {"x", "y", "width", "height", "label", "color", "status"})),
           overrides)

\* client.service('boards').patch(board_id, {_action: 'upsertObject', ...}) of
\* an edit of the fields in overrides
EditCall(c, z, data, overrides) ==
    UpsertObject(c, z, createObjectData(data, overrides),
                 [kind |-> "edit", updates |-> overrides, board |-> EmptyBoard])

\* handleSaveLabel
handleSaveLabel(c, z, label) ==
    /\ nextRid < MaxRequests
    /\ z \in DOMAIN nodes[c]
    /\ nodes[c][z].type = "zone"
    /\ label # nodes[c][z].data.label
    /\ Call1(c, EditCall(c, z, nodes[c][z].data, "label" :> label))
    /\ UNCHANGED <<store, patched, connected, inbox, boards, repo, canvas, removedIds, rest>>

\* handleColorChange
handleColorChange(c, z, color) ==
    /\ nextRid < MaxRequests
    /\ z \in DOMAIN nodes[c]
    /\ nodes[c][z].type = "zone"
    /\ Call1(c, EditCall(c, z, nodes[c][z].data, "color" :> color))
    /\ UNCHANGED <<store, patched, connected, inbox, boards, repo, canvas, removedIds, rest>>

\* the object handlePointerUp persists for a zone drawn at p with size d
drawnObject(p, d) ==
    Spread(Zone(p.x, p.y, d.width, d.height), "color" :> "#d9d9d9")

\* handlePointerUp with the zone tool: the optimistic node and the upsertObject
\* call for a zone drawn at p with size d; its id is new
handlePointerUp(c, z, p, d) ==
    /\ nextRid < MaxRequests
    /\ z \notin DOMAIN store[TheBoard].objects
    /\ \A r \in reqs : r.objectId # z
    /\ \A k \in Clients : z \notin DOMAIN nodes[k]
    /\ nodes' = [nodes EXCEPT ![c] =
          Spread(@, z :> [type |-> "zone", position |-> p,
                          width |-> d.width, height |-> d.height, selected |-> FALSE,
                          data |-> [objectId |-> z, label |-> "New Zone",
                                    width |-> d.width, height |-> d.height,
                                    color |-> "#d9d9d9"]])]
    /\ Call1(c, UpsertObject(c, z, drawnObject(p, d),
                             [kind |-> "draw", updates |-> EmptyMap, board |-> EmptyBoard]))
    /\ UNCHANGED <<store, patched, connected, inbox, boards, repo, removedIds, rest,
                   localPositionsRef, deletedObjectsRef, timers, pendingLayoutUpdatesRef,
                   layoutUpdateTimerRef, pendingResizeUpdatesRef, resizeTimerRef,
                   isDraggingRef, dragging, isSyncingRef, gestures, everDeleted>>

\* a settling that leaves the optimistic node of a failed draw in place
ZoneSettledKeepsNode(c, r) ==
    /\ r \in reqs
    /\ r.from = c
    /\ r.phase \in {"ok", "failed"}
    /\ r.cont.kind \in {"draw", "edit"}
    /\ reqs' = reqs \ {r}
    /\ UNCHANGED <<store, nextRid, patched, connected, inbox, boards, repo, removedIds, rest,
                   nodes, localPositionsRef, deletedObjectsRef, timers,
                   pendingLayoutUpdatesRef, layoutUpdateTimerRef, pendingResizeUpdatesRef,
                   resizeTimerRef, isDraggingRef, dragging, isSyncingRef, gestures,
                   everDeleted>>

\* the patch call of an edit or of a drawn zone settles: a failed draw takes
\* the optimistic node away again, a failed edit is logged
ZoneSettled(c, r) ==
    /\ r \in reqs
    /\ r.from = c
    /\ r.phase \in {"ok", "failed"}
    /\ r.cont.kind \in {"draw", "edit"}
    /\ reqs' = reqs \ {r}
    /\ nodes' = IF r.cont.kind = "draw" /\ r.phase = "failed"
                THEN [nodes EXCEPT ![c] = Delete(@, r.objectId)]
                ELSE nodes
    /\ UNCHANGED <<store, nextRid, patched, connected, inbox, boards, repo, removedIds, rest,
                   localPositionsRef, deletedObjectsRef, timers, pendingLayoutUpdatesRef,
                   layoutUpdateTimerRef, pendingResizeUpdatesRef, resizeTimerRef,
                   isDraggingRef, dragging, isSyncingRef, gestures, everDeleted>>

----------------------------------------------------------------------------
(* Pinning sessions to zones: layout entries with a parentId *)

MaxPins == 3

PinPositions == {Pos(0, 0), Pos(450, 30), Pos(-20, 260)}

ZoneOrigins == {Pos(0, 0), Pos(400, 0), Pos(-100, 200)}

\* layout?.parentId (undefined is NoNode)
parentId(layout, id) ==
    IF id \in DOMAIN layout /\ "parentId" \in DOMAIN layout[id]
    THEN layout[id].parentId ELSE NoNode

\* node construction: position { x: layout?.x ?? 0, y: layout?.y ?? 0 } and
\* parentId: layout?.parentId
sessionNodes(board) ==
    [s \in SessIds |->
        [type |-> "sessionNode",
         position |-> IF s \in DOMAIN board.layout
                      THEN Pos(board.layout[s].x, board.layout[s].y) ELSE Pos(0, 0),
         parentId |-> parentId(board.layout, s),
         width |-> 0, height |-> 0, selected |-> FALSE]]

pinnedNodes(board) == Spread(sessionNodes(board), getBoardObjectNodes(board))

\* pin to zone: convert absolute position to relative (coordinates are
\* integers here: no rounding)
relativePosition(node, zone) ==
    [x |-> node.position.x - zone.position.x,
     y |-> node.position.y - zone.position.y,
     parentId |-> zone.id]

\* convert relative position to absolute; parentZone is the set of nodes found
\* for layout.parentId (none or one)
absolutePositionOfNode(node, parentZone) == Pos(node.position.x, node.position.y)

absolutePosition(node, parentZone) ==
    IF parentZone = {} THEN Pos(node.position.x, node.position.y)
    ELSE LET z == CHOOSE n \in parentZone : TRUE
         IN  Pos(node.position.x + z.position.x, node.position.y + z.position.y)

\* handleNodeDragStop with the session dropped inside zone z and no parent yet
PinDrop(c, s, z) ==
    LET board == boards[c][TheBoard]
        ns == nodes[c]
    IN  /\ nextRid < MaxPins
        /\ s \in DOMAIN ns /\ ns[s].type = "sessionNode"
        /\ z \in DOMAIN ns /\ ns[z].type = "zone"
        /\ parentId(board.layout, s) = NoNode
        /\ Call1(c, PatchLayoutOf(c,
              Spread(board.layout,
                     s :> relativePosition(ns[s], [id |-> z, position |-> ns[z].position])),
              {s}, NoCont))
        /\ pinnedFrom' = Spread(pinnedFrom,
                                s :> [position |-> ns[s].position, zone |-> ns[z].position])
        /\ UNCHANGED <<store, patched, connected, inbox, boards, repo, canvas, removedIds,
                       removal, resized>>

\* handleUnpin(sessionId)
handleUnpin(c, s) ==
    LET board == boards[c][TheBoard]
        ns == nodes[c]
        parent == parentId(board.layout, s)
        parentZone == {ns[n] : n \in DOMAIN ns \cap {parent}}
    IN  /\ nextRid < MaxPins
        /\ s \in DOMAIN ns
        /\ parent # NoNode
        /\ Call1(c, PatchLayoutOf(c,
              Spread(board.layout, s :> absolutePosition(ns[s], parentZone)),
              {s}, NoCont))
        /\ UNCHANGED <<store, patched, connected, inbox, boards, repo, canvas, removedIds,
                       rest>>

\* boardsService.on('patched', ...) followed by the node construction
OnPatchedPinned(c) ==
    /\ inbox[c] # <<>>
    /\ boards' = [boards EXCEPT ![c] = handleBoardPatched(@, Head(inbox[c]))]
    /\ inbox' = [inbox EXCEPT ![c] = Tail(@)]
    /\ nodes' = [nodes EXCEPT ![c] = pinnedNodes(boards'[c][TheBoard])]
    /\ UNCHANGED <<store, reqs, nextRid, patched, connected, repo, removedIds, rest,
                   localPositionsRef, deletedObjectsRef, timers, pendingLayoutUpdatesRef,
                   layoutUpdateTimerRef, pendingResizeUpdatesRef, resizeTimerRef,
                   isDraggingRef, dragging, isSyncingRef, gestures, everDeleted>>

----------------------------------------------------------------------------
(* The daemon's hook on sessions 'removed' *)

\* a board with its session ids
BoardOf(objects, layout, sessions) ==
    [objects |-> objects, layout |-> layout, sessions |-> sessions]

\* boardsService.removeSession(boardId, sessionId): the board without the
\* session id and without its position entry
removeSession(board, sessionId) ==
    [sessions |-> board.sessions \ {sessionId},
     layout |-> Delete(board.layout, sessionId)]

\* the boards of the find() result that the loop does not pass over:
\* board.sessions?.includes(session.session_id)
boardsHolding(found, sessionId) ==
    LET Includes(b) == sessionId \in b.sessions
    IN  SelectSeq(found, Includes)

\* sessionsService emits 'removed': the callback runs up to its first
\* removeSession call
SessionRemoved(s, order) ==
    LET found == [i \in DOMAIN order |->
                     [bid |-> order[i], sessions |-> store[order[i]].sessions]]
        todo == boardsHolding(found, s)
    IN  /\ removal.phase = "idle"
        /\ removal' = [session |-> s, boards |-> todo,
                       phase |-> IF todo = <<>> THEN "done" ELSE "running"]
        /\ UNCHANGED <<service, canvas, removedIds, pinnedFrom, resized>>

\* await boardsService.removeSession(board.board_id, session.session_id) returns
HookRemoveSession ==
    /\ removal.phase = "running"
    /\ store' = update(store, Head(removal.boards).bid,
                       removeSession(store[Head(removal.boards).bid], removal.session))
    /\ removal' = [removal EXCEPT !.boards = Tail(@),
                                  !.phase = IF Tail(removal.boards) = <<>>
                                            THEN "done" ELSE "running"]
    /\ UNCHANGED <<reqs, nextRid, patched, connected, inbox, boards, repo, canvas,
                   removedIds, pinnedFrom, resized>>

\* the call rejects: catch (error) { console.error(...) } ends the callback
HookRemoveSessionFails ==
    /\ removal.phase = "running"
    /\ removal' = [removal EXCEPT !.boards = <<>>, !.phase = "done"]
    /\ UNCHANGED <<service, canvas, removedIds, pinnedFrom, resized>>

----------------------------------------------------------------------------
(* Specifications *)

RepoBoards == {Board(o, l) : o \in PartialMaps(ZoneIds, ObjData),
                             l \in {EmptyMap, "s1" :> Pos(20, 0)}}

NoEvent == [count |-> 0, bid |-> TheBoard, board |-> EmptyBoard]

\* zone z2, and session s2 pinned to it at offset (10, 10)
InitBoard ==
    Board("z2" :> Zone(400, 0, 200, 200),
          "s2" :> [x |-> 10, y |-> 10, parentId |-> "z2"])

IdleService ==
    /\ reqs = {}
    /\ nextRid = 0
    /\ patched = NoEvent
    /\ connected = Clients
    /\ inbox = [c \in Clients |-> <<>>]

\* no session has been removed
NoRemoval == [session |-> NoNode, boards |-> <<>>, phase |-> "idle"]

\* every canvas shows the board its client holds; nothing is pending
IdleCanvas ==
    /\ nodes = [c \in Clients |->
                  syncNodes(EmptyMap, allNodes(boards[c][TheBoard]), EmptyMap, {})]
    /\ localPositionsRef = [c \in Clients |-> EmptyMap]
    /\ deletedObjectsRef = [c \in Clients |-> {}]
    /\ timers = <<>>
    /\ pendingLayoutUpdatesRef = [c \in Clients |-> EmptyMap]
    /\ layoutUpdateTimerRef = [c \in Clients |-> NoTimer]
    /\ pendingResizeUpdatesRef = [c \in Clients |-> EmptyMap]
    /\ resizeTimerRef = [c \in Clients |-> NoTimer]
    /\ isDraggingRef = [c \in Clients |-> FALSE]
    /\ dragging = [c \in Clients |-> NoNode]
    /\ isSyncingRef = [c \in Clients |-> FALSE]
    /\ gestures = 0
    /\ removedIds = {}
    /\ pinnedFrom = EmptyMap
    /\ removal = NoRemoval
    /\ resized = [c \in Clients |-> EmptyMap]
    /\ everDeleted = [c \in Clients |-> {}]

\* the repository alone, over every small stored board
InitRepo ==
    /\ store \in {[b \in StoredBoards |-> IF b = TheBoard THEN b1 ELSE b2] :
                    b1 \in RepoBoards, b2 \in {EmptyBoard, InitBoard}}
    /\ IdleService
    /\ boards = [c \in Clients |-> store]
    /\ repo = NoCall
    /\ IdleCanvas

NextRepo ==
    \/ \E b \in {TheBoard, MissingBoard}, o \in ZoneIds, d \in ObjData : RepoUpsert(b, o, d)
    \/ \E b \in {TheBoard, MissingBoard}, o \in ZoneIds : RepoRemove(b, o)
    \/ \E b \in {TheBoard, MissingBoard}, os \in PartialMaps(ZoneIds, ObjData) : RepoBatch(b, os)

SpecRepo == InitRepo /\ [][NextRepo]_vars

\* the service with concurrent patch calls and subscribed clients
InitService ==
    /\ store = [b \in StoredBoards |-> IF b = TheBoard THEN InitBoard ELSE EmptyBoard]
    /\ IdleService
    /\ boards = [c \in Clients |-> store]
    /\ repo = NoCall
    /\ IdleCanvas

NextService ==
    \/ \E c \in Clients, p \in UpsertPayloads : PatchUpsertObject(c, p[1], p[2], p[3])
    \/ \E c \in Clients, p \in RemovePayloads : PatchRemoveObject(c, p[1], p[2])
    \/ \E c \in Clients, p \in BatchPayloads : PatchBatchUpsertObjects(c, p[1], p[2])
    \/ \E c \in Clients, p \in LayoutPayloads : PatchLayout(c, p[1], p[2])
    \/ \E r \in reqs : ServerRead(r)
    \/ \E r \in reqs : ServerWrite(r)
    \/ \E r \in reqs : ServerWriteFails(r)
    \/ \E r \in reqs : ServerPatch(r)
    \/ \E r \in reqs : Settle(r)
    \/ \E c \in Clients \ {"c1"} : Connect(c)
    \/ \E c \in Clients \ {"c1"} : Disconnect(c)
    \/ \E c \in Clients : OnPatched(c)

SpecService == InitService /\ [][NextService]_vars

\* pin and unpin of sessions, over small positions and zone origins
InitPin ==
    /\ store \in {[b \in StoredBoards |->
                      IF b = TheBoard
                      THEN Board("z2" :> Zone(z.x, z.y, 200, 200), "s1" :> p)
                      ELSE EmptyBoard] : p \in PinPositions, z \in ZoneOrigins}
    /\ IdleService
    /\ boards = [c \in Clients |-> store]
    /\ repo = NoCall
    /\ nodes = [c \in Clients |-> pinnedNodes(boards[c][TheBoard])]
    /\ localPositionsRef = [c \in Clients |-> EmptyMap]
    /\ deletedObjectsRef = [c \in Clients |-> {}]
    /\ timers = <<>>
    /\ pendingLayoutUpdatesRef = [c \in Clients |-> EmptyMap]
    /\ layoutUpdateTimerRef = [c \in Clients |-> NoTimer]
    /\ pendingResizeUpdatesRef = [c \in Clients |-> EmptyMap]
    /\ resizeTimerRef = [c \in Clients |-> NoTimer]
    /\ isDraggingRef = [c \in Clients |-> FALSE]
    /\ dragging = [c \in Clients |-> NoNode]
    /\ isSyncingRef = [c \in Clients |-> FALSE]
    /\ gestures = 0
    /\ removedIds = {}
    /\ pinnedFrom = EmptyMap
    /\ removal = NoRemoval
    /\ resized = [c \in Clients |-> EmptyMap]
    /\ everDeleted = [c \in Clients |-> {}]

NextPin ==
    \/ \E c \in Clients, z \in ZoneIds : PinDrop(c, "s1", z)
    \/ \E c \in Clients : handleUnpin(c, "s1")
    \/ \E r \in reqs : ServerPatch(r)
    \/ \E c \in Clients : OnPatchedPinned(c)
    \/ \E r \in reqs : Settle(r)

SpecPin == InitPin /\ [][NextPin]_vars

\* boards with their session ids: every positioned session is a session of
\* the board
SessionBoards ==
    {BoardOf(EmptyMap, EmptyMap, {}),
     BoardOf(EmptyMap, "s1" :> Pos(0, 0), {"s1"}),
     BoardOf("z2" :> Zone(400, 0, 200, 200),
             ("s1" :> Pos(0, 0)) @@ ("s2" :> Pos(40, 20)), {"s1", "s2"})}

InitSessions ==
    /\ store \in {[b \in StoredBoards |-> IF b = TheBoard THEN b1 ELSE b2] :
                    b1 \in SessionBoards, b2 \in SessionBoards}
    /\ IdleService
    /\ boards = [c \in Clients |-> store]
    /\ repo = NoCall
    /\ IdleCanvas

NextSessions ==
    \/ \E s \in SessIds, order \in {<<"b1", "b2">>, <<"b2", "b1">>} : SessionRemoved(s, order)
    \/ HookRemoveSession
    \/ HookRemoveSessionFails
    \/ \E c \in Clients, p \in LayoutPayloads : PatchLayout(c, p[1], p[2])
    \/ \E r \in reqs : ServerPatch(r)
    \/ \E c \in Clients : OnPatched(c)
    \/ \E r \in reqs : Settle(r)

SpecSessions == InitSessions /\ [][NextSessions]_vars

\* the clients' canvases, the service and the channel together
Init == InitService

Next ==
    \/ \E c \in Clients, n \in SessIds \cup ZoneIds : DragStart(c, n)
    \/ \E c \in Clients, p \in DragTargets : Drag(c, p)
    \/ \E c \in Clients : DragStop(c)
    \/ \E c \in Clients : LayoutTimerFires(c)
    \/ \E c \in Clients, z \in ZoneIds, d \in Sizes : Resize(c, z, d)
    \/ \E c \in Clients : ResizeTimerFires(c)
    \/ \E c \in Clients, z \in ZoneIds : DeleteObject(c, z)
    \/ \E c \in Clients, z \in ZoneIds : DeleteTimerFires(c, z)
    \/ \E c \in Clients, r \in reqs : Settled(c, r)
    \/ \E r \in reqs : ServerRead(r)
    \/ \E r \in reqs : ServerWrite(r)
    \/ \E r \in reqs : ServerWriteFails(r)
    \/ \E r \in reqs : ServerPatch(r)
    \/ \E c \in Clients : OnPatchedSync(c)
    \/ \E c \in Clients : SyncTimerFires(c)

Spec == Init /\ [][Next]_vars

\* resizes and deletes of two clients over a channel that may deliver a
\* client's events newer first
NextReorder ==
    \/ \E c \in Clients, z \in ZoneIds, d \in Sizes : Resize(c, z, d)
    \/ \E c \in Clients : ResizeTimerFires(c)
    \/ \E c \in Clients, z \in ZoneIds : DeleteObject(c, z)
    \/ \E c \in Clients, z \in ZoneIds : DeleteTimerFires(c, z)
    \/ \E c \in Clients, r \in reqs : Settled(c, r)
    \/ \E r \in reqs : ServerRead(r)
    \/ \E r \in reqs : ServerWrite(r)
    \/ \E c \in Clients : OnPatchedSync(c)
    \/ \E c \in Clients : SyncTimerFires(c)
    \/ \E c \in Clients : Overtake(c)

SpecReorder == Init /\ [][NextReorder]_vars

\* eraser clicks and delete keys of two clients on selected nodes
NextErase ==
    \/ \E c \in Clients, n \in SessIds \cup ZoneIds, v \in BOOLEAN : Select(c, n, v)
    \/ \E c \in Clients, n \in SessIds \cup ZoneIds : handleNodeClick(c, n)
    \/ \E c \in Clients, key \in Keys : handleKeyDown(c, key)
    \/ \E c \in Clients, z \in ZoneIds : DeleteTimerFires(c, z)
    \/ \E c \in Clients, r \in reqs : Settled(c, r)
    \/ \E r \in reqs : ServerRead(r)
    \/ \E r \in reqs : ServerWrite(r)
    \/ \E c \in Clients : OnPatchedSync(c)
    \/ \E c \in Clients : SyncTimerFires(c)

SpecErase == Init /\ [][NextErase]_vars

\* session drags of two clients whose board and client props may be null at a
\* drag stop; a pressed pointer is released and a set timer fires
NextDrag ==
    \/ \E c \in Clients, n \in SessIds : DragStart(c, n)
    \/ \E c \in Clients, p \in DragTargets : Drag(c, p)
    \/ \E c \in Clients, ready \in BOOLEAN : handleNodeDragStop(c, ready)
    \/ \E c \in Clients : LayoutTimerFires(c)
    \/ \E c \in Clients, r \in reqs : Settled(c, r)
    \/ \E r \in reqs : ServerPatch(r)
    \/ \E c \in Clients : OnPatchedSync(c)
    \/ \E c \in Clients : SyncTimerFires(c)

FairDrag ==
    \A c \in Clients :
        /\ WF_vars(\E ready \in BOOLEAN : handleNodeDragStop(c, ready))
        /\ WF_vars(LayoutTimerFires(c))
        /\ WF_vars(SyncTimerFires(c))

SpecDrag == Init /\ [][NextDrag]_vars /\ FairDrag

\* canvases showing a board with one stored zone
InitZone ==
    /\ store \in {[b \in StoredBoards |->
                      IF b = TheBoard THEN Board("z2" :> o, EmptyMap) ELSE EmptyBoard] :
                    o \in ZoneObjects}
    /\ IdleService
    /\ boards = [c \in Clients |-> store]
    /\ repo = NoCall
    /\ nodes = [c \in Clients |->
                  Spread(initialNodes(boards[c][TheBoard]),
                         getBoardObjectNodesWithData(boards[c][TheBoard]))]
    /\ localPositionsRef = [c \in Clients |-> EmptyMap]
    /\ deletedObjectsRef = [c \in Clients |-> {}]
    /\ timers = <<>>
    /\ pendingLayoutUpdatesRef = [c \in Clients |-> EmptyMap]
    /\ layoutUpdateTimerRef = [c \in Clients |-> NoTimer]
    /\ pendingResizeUpdatesRef = [c \in Clients |-> EmptyMap]
    /\ resizeTimerRef = [c \in Clients |-> NoTimer]
    /\ isDraggingRef = [c \in Clients |-> FALSE]
    /\ dragging = [c \in Clients |-> NoNode]
    /\ isSyncingRef = [c \in Clients |-> FALSE]
    /\ gestures = 0
    /\ removedIds = {}
    /\ pinnedFrom = EmptyMap
    /\ removal = NoRemoval
    /\ resized = [c \in Clients |-> EmptyMap]
    /\ everDeleted = [c \in Clients |-> {}]

\* label and color edits and zone drawing of two clients
NextZone ==
    \/ \E c \in Clients, z \in ZoneIds, l \in Labels : handleSaveLabel(c, z, l)
    \/ \E c \in Clients, z \in ZoneIds, k \in Colors : handleColorChange(c, z, k)
    \/ \E c \in Clients, p \in DragTargets, d \in Sizes : handlePointerUp(c, "z1", p, d)
    \/ \E c \in Clients, r \in reqs : ZoneSettled(c, r)
    \/ \E r \in reqs : ServerRead(r)
    \/ \E r \in reqs : ServerWrite(r)
    \/ \E r \in reqs : ServerWriteFails(r)
    \/ \E c \in Clients : OnPatchedSyncWithData(c)
    \/ \E c \in Clients : SyncTimerFires(c)

SpecZone == InitZone /\ [][NextZone]_vars

\* session drags of two clients, with the user selecting and deselecting nodes
NextSelect ==
    \/ \E c \in Clients, n \in SessIds, v \in BOOLEAN : Select(c, n, v)
    \/ \E c \in Clients, n \in SessIds : DragStart(c, n)
    \/ \E c \in Clients, p \in DragTargets : Drag(c, p)
    \/ \E c \in Clients : DragStop(c)
    \/ \E c \in Clients : LayoutTimerFires(c)
    \/ \E c \in Clients, r \in reqs : Settled(c, r)
    \/ \E r \in reqs : ServerPatch(r)
    \/ \E c \in Clients : OnPatchedSync(c)
    \/ \E c \in Clients : SyncTimerFires(c)

SpecSelect == Init /\ [][NextSelect]_vars

\* resizes of two clients, with React Flow reporting the sizes that the sync
\* effect rendered
NextMeasure ==
    \/ \E c \in Clients, z \in ZoneIds, d \in Sizes : Resize(c, z, d)
    \/ \E c \in Clients : ResizeTimerFires(c)
    \/ \E c \in Clients, r \in reqs : Settled(c, r)
    \/ \E r \in reqs : ServerRead(r)
    \/ \E r \in reqs : ServerWrite(r)
    \/ \E c \in Clients : OnPatchedSyncMeasured(c)
    \/ \E c \in Clients, z \in ZoneIds : DimensionsChange(c, z)
    \/ \E c \in Clients : SyncTimerFires(c)

SpecMeasure == Init /\ [][NextMeasure]_vars

\* what runs without the user: the server, the settling of calls, the
\* delivery of events and the timers
Progress ==
    \/ \E c \in Clients, z \in ZoneIds : DeleteTimerFires(c, z)
    \/ \E c \in Clients, r \in reqs : Settled(c, r)
    \/ \E r \in reqs : ServerRead(r)
    \/ \E r \in reqs : ServerWrite(r) \/ ServerWriteFails(r)
    \/ \E c \in Clients : ResizeTimerFires(c)
    \/ \E c \in Clients : OnPatchedSync(c)
    \/ \E c \in Clients : SyncTimerFires(c)

\* deletes and resizes of two clients
NextDelete ==
    \/ \E c \in Clients, z \in ZoneIds : DeleteObject(c, z)
    \/ \E c \in Clients, z \in ZoneIds, d \in Sizes : Resize(c, z, d)
    \/ Progress

\* every server step, settling, delivery and timer that can run does run
SpecDelete == Init /\ [][NextDelete]_vars /\ WF_vars(Progress)

----------------------------------------------------------------------------
(* Claims about the repository and the service *)

Completed(r) == r.phase = "ok"

\* the object ids a mutation writes
Touched(r) ==
    CASE r.action = "batchUpsertObjects" -> DOMAIN r.objects
      [] r.action \in {"upsertObject", "removeObject"} -> {r.objectId}
      [] OTHER -> {}

\* the stored objects show what the mutation wrote
Reflected(r) ==
    LET objs == store[r.bid].objects
    IN  CASE r.action = "upsertObject" ->
                r.objectId \in DOMAIN objs /\ objs[r.objectId] = r.objectData
          [] r.action = "removeObject" -> r.objectId \notin DOMAIN objs
          [] r.action = "batchUpsertObjects" ->
                \A o \in DOMAIN r.objects : o \in DOMAIN objs /\ objs[o] = r.objects[o]
          [] OTHER -> TRUE

\* C3: when the only two mutations of a board touch different object ids and both
\* have succeeded, the stored objects map reflects both of them (no mutation is
\* lost because the other one wrote between its read and its write).
C3_NoLostMutation ==
    \A r1, r2 \in reqs :
        ( /\ r1 # r2
          /\ nextRid = 2
          /\ Completed(r1) /\ Completed(r2)
          /\ r1.action \in Actions /\ r2.action \in Actions
          /\ r1.bid = r2.bid
          /\ Touched(r1) \cap Touched(r2) = {} )
        => Reflected(r1) /\ Reflected(r2)

\* the calls that succeed in this step
NewlyOk == {r \in reqs' \ reqs : r.phase = "ok"}

\* C6: a step in which an upsertObject, removeObject or batchUpsertObjects call
\* succeeds emits exactly one 'patched' event, carrying the board as stored by
\* that write (one event for a whole batch); every other step that is not a
\* plain patch, a failing call included, emits none.
C6_NotifyOnSuccessOnly ==
    [][ /\ Cardinality(NewlyOk) <= 1
        /\ \A r \in NewlyOk : r.action \in Actions =>
              /\ patched'.count = patched.count + 1
              /\ patched'.bid = r.bid
              /\ patched'.board = store'[r.bid]
              /\ store'[r.bid].objects = hookUpdates(r).objects
        /\ NewlyOk = {} => patched' = patched /\ store' = store ]_vars

C6_Witness ==
    /\ patched.count = 1
    /\ \E r \in reqs : /\ r.action = "batchUpsertObjects"
                       /\ Cardinality(DOMAIN r.objects) = 2
                       /\ r.phase = "ok"
    /\ \E r \in reqs : r.phase = "failed"

\* the events of an inbox are pairwise different and in the order of emission
InOrder(q) == \A i, j \in 1..Len(q) : i < j => q[i].count < q[j].count

\* C7: an emitted event is put, once, into the inbox of every connection joined to
\* the channel at that moment, the caller's included, and of no other; an inbox
\* never holds an event twice; handling an event replaces the client's copy of
\* that board by the event's snapshot.
C7_DeliveredToAll ==
    /\ [](\A c \in Clients : InOrder(inbox[c]))
    /\ [][ /\ patched' # patched =>
                \A c \in Clients :
                    inbox'[c] = IF c \in connected THEN Append(inbox[c], patched')
                                                   ELSE inbox[c]
           /\ \A c \in Clients :
                 (patched' = patched /\ inbox'[c] # inbox[c] /\ c \in connected') =>
                    /\ inbox[c] # <<>>
                    /\ inbox'[c] = Tail(inbox[c])
                    /\ boards'[c][Head(inbox[c]).bid] = Head(inbox[c]).board ]_vars

C7_Witness ==
    \E r \in reqs :
        /\ r.phase = "ok"
        /\ r.action = "upsertObject"
        /\ patched.count = 1
        /\ \A c \in Clients : /\ c \in connected
                              /\ inbox[c] = <<>>
                              /\ boards[c][r.bid] = patched.board
                              /\ r.objectId \in DOMAIN boards[c][r.bid].objects

\* C8: a removeObject that directly follows a removeObject of the same id on the
\* same board leaves the store as the first one left it, and removing an id the
\* board does not hold returns without an error and leaves the store unchanged.
C8_RemoveIdempotent ==
    (repo.op = "remove" /\ repo.bid \in DOMAIN repo.before) =>
        /\ repo.err = "none"
        /\ (repo.prev = [op |-> "remove", bid |-> repo.bid, objectId |-> repo.objectId])
              => store = repo.before
        /\ repo.objectId \notin DOMAIN repo.before[repo.bid].objects
              => store = repo.before
        /\ repo.objectId \notin DOMAIN store[repo.bid].objects

C8_Witness ==
    /\ repo.op = "remove"
    /\ repo.prev = [op |-> "remove", bid |-> repo.bid, objectId |-> repo.objectId]
    /\ repo.bid \in DOMAIN store
    /\ DOMAIN store[repo.bid].objects # {}

\* upsertObject for each entry of objects, one after the other
RECURSIVE OneByOne(_, _, _)
OneByOne(st, boardId, objects) ==
    IF DOMAIN objects = {} THEN st
    ELSE LET o == CHOOSE k \in DOMAIN objects : TRUE
             next == update(st, boardId,
                            upsertBoardObject(TheOne(findById(st, boardId)), o, objects[o]))
         IN  OneByOne(next, boardId, Delete(objects, o))

\* C9: batchUpsertObjects leaves the store as upsertObject for each of its entries
\* in turn leaves it, also for an entry whose id the board already holds.
C9_BatchEquivalence ==
    (repo.op = "batch" /\ repo.err = "none") =>
        store = OneByOne(repo.before, repo.bid, repo.objects)

C9_Witness ==
    /\ repo.op = "batch"
    /\ repo.err = "none"
    /\ DOMAIN repo.objects = {"z1", "z2"}
    /\ repo.objects["z1"] # repo.objects["z2"]
    /\ "z1" \in DOMAIN repo.before[repo.bid].objects
    /\ repo.before[repo.bid].objects["z1"] # repo.objects["z1"]

\* C10: a repository call on a board id that is not stored ends with the
\* not-found error and leaves the store as it was; no board is created.
C10_NotFound ==
    (repo.op # "none" /\ repo.bid \notin DOMAIN repo.before) =>
        /\ repo.err = "EntityNotFoundError"
        /\ store = repo.before

C10_Witness ==
    /\ repo.op = "batch"
    /\ repo.bid = MissingBoard
    /\ repo.objects # EmptyMap
    /\ repo.prev.op = "upsert"
    /\ repo.prev.bid = MissingBoard

\* C11: upsertObject(boardId, objectId, objectData) changes only the entry for
\* objectId in the objects map of that board: every other object entry, the
\* layout and every other board are as before, and afterwards
\* objects[objectId] equals objectData.
C11_UpsertFrame ==
    (repo.op = "upsert" /\ repo.err = "none") =>
        LET before == repo.before[repo.bid]
            after == store[repo.bid]
        IN  /\ DOMAIN store = DOMAIN repo.before
            /\ \A b \in DOMAIN store \ {repo.bid} : store[b] = repo.before[b]
            /\ after.layout = before.layout
            /\ DOMAIN after.objects = DOMAIN before.objects \cup {repo.objectId}
            /\ after.objects[repo.objectId] = repo.objects[repo.objectId]
            /\ \A o \in DOMAIN before.objects \ {repo.objectId} :
                  after.objects[o] = before.objects[o]

C11_Witness ==
    /\ repo.op = "upsert"
    /\ repo.err = "none"
    /\ DOMAIN repo.before[repo.bid].objects = {"z1", "z2"}
    /\ repo.before[repo.bid].objects[repo.objectId] # repo.objects[repo.objectId]
    /\ DOMAIN repo.before[repo.bid].layout # {}
    /\ repo.before["b2"] = InitBoard

----------------------------------------------------------------------------
(* Claims about the clients and the service together *)

\* every debounce, sync and delete timer has fired, every call has settled and
\* every broadcast has been delivered
Quiescent ==
    /\ reqs = {}
    /\ timers = <<>>
    /\ \A c \in Clients :
          /\ inbox[c] = <<>>
          /\ dragging[c] = NoNode

\* ids, positions and sizes of a set of nodes
View(ns) == [n \in DOMAIN ns |-> <<ns[n].position, ns[n].width, ns[n].height>>]

\* C1: once everything has settled, an object whose removeObject the server
\* has processed is absent from the server's objects map and from the view of
\* every connected client, whatever the order of the delete and a stale
\* batchUpsertObjects of another client.
C1_NoResurrection ==
    Quiescent =>
        \A X \in removedIds :
            /\ X \notin DOMAIN store[TheBoard].objects
            /\ \A c \in connected : X \notin DOMAIN nodes[c]

\* C2: after a quiet period in which all timers have fired, all requests have
\* completed and all broadcasts have been delivered, the view of every
\* connected client (ids, positions, sizes) equals the server's board.
C2_Convergence ==
    Quiescent =>
        \A c \in connected : View(nodes[c]) = View(allNodes(store[TheBoard]))

\* C4: whenever the stored position map changes, it changes by a request that
\* leaves every entry it did not move at the value stored before.
C4_LayoutReadModifyWrite ==
    [][store'[TheBoard].layout # store[TheBoard].layout =>
          \E r \in reqs :
              /\ r.action = "patch"
              /\ r.phase = "sent"
              /\ \A k \in DOMAIN store[TheBoard].layout \ r.moved :
                    /\ k \in DOMAIN store'[TheBoard].layout
                    /\ store'[TheBoard].layout[k] = store[TheBoard].layout[k]]_vars

\* the requests a step adds that carry data of object X
WritesOf(c, X) ==
    {r \in reqs' \ reqs :
        /\ r.from = c
        /\ r.phase = "sent"
        /\ \/ r.action = "upsertObject" /\ r.objectId = X
           \/ r.action = "batchUpsertObjects" /\ X \in DOMAIN r.objects}

\* C5: once a client has locally deleted object X, its pending position and
\* resize buffers hold nothing for X, and it sends no upsertObject or
\* batchUpsertObjects containing X afterwards.
C5_DeleteCancelsPending ==
    /\ [](\A c \in Clients : \A X \in everDeleted[c] :
             /\ X \notin DOMAIN pendingLayoutUpdatesRef[c]
             /\ X \notin DOMAIN pendingResizeUpdatesRef[c])
    /\ [][\A c \in Clients : \A X \in everDeleted[c] : WritesOf(c, X) = {}]_vars

\* the pending timers of one kind of one client
Armed(q, kind, c) == {i \in DOMAIN q : q[i] = TimerOf(kind, c, NoNode)}

\* the calls a step adds for client c
CallsOf(c) == {r \in reqs' \ reqs : r.from = c /\ r.phase = "sent"}

\* the call carries, for each id it changes, the value buffered for it
CarriesPositions(r, pending) ==
    CASE r.action = "patch" ->
            \A k \in r.moved : k \in DOMAIN pending /\ r.layout[k] = pending[k]
      [] r.action = "batchUpsertObjects" ->
            \A k \in DOMAIN r.objects :
                k \in DOMAIN pending /\ Pos(r.objects[k].x, r.objects[k].y) = pending[k]
      [] OTHER -> FALSE

CarriesSizes(r, pending) ==
    /\ r.action = "upsertObject"
    /\ r.objectId \in DOMAIN pending
    /\ r.objectData.width = pending[r.objectId].width
    /\ r.objectData.height = pending[r.objectId].height

Expires(kind, c) == Armed(timers, kind, c) # {} /\ Armed(timers', kind, c) = {}

\* the call is the last one of its flush: no code after its await sends another
LastOfFlush(c, r) ==
    /\ r.cont.kind # "batch"
    /\ r.cont.kind = "resize" => resizeCalls(c, r.cont.updates, r.cont.board) = {}

\* C13: when a debounce timer expires with pending values for k >= 1 ids, the
\* flush sends all of them in one request and no further one (one mutation and
\* one broadcast per expiry), and the pending buffer is empty once the flush
\* has started.
C13_OneRequestPerFlush ==
    [][\A c \in Clients :
          /\ (Expires("layout", c) /\ pendingLayoutUpdatesRef[c] # EmptyMap) =>
                /\ pendingLayoutUpdatesRef'[c] = EmptyMap
                /\ Cardinality(CallsOf(c)) = 1
                /\ \A r \in CallsOf(c) :
                      /\ LastOfFlush(c, r)
                      /\ r.moved \cup DOMAIN r.objects = DOMAIN pendingLayoutUpdatesRef[c]
          /\ (Expires("resize", c) /\ pendingResizeUpdatesRef[c] # EmptyMap) =>
                /\ pendingResizeUpdatesRef'[c] = EmptyMap
                /\ Cardinality(CallsOf(c)) = 1
                /\ \A r \in CallsOf(c) :
                      /\ LastOfFlush(c, r)
                      /\ DOMAIN pendingResizeUpdatesRef[c] = {r.objectId} ]_vars

\* the ids whose buffered value a flush call carries
Flushed(r) ==
    CASE r.action = "patch" -> r.moved
      [] r.action = "batchUpsertObjects" -> DOMAIN r.objects
      [] r.action = "upsertObject" -> {r.objectId}
      [] OTHER -> {}

\* C14: when the call of a debounced flush fails, every value it carried is
\* back in the pending buffer (or a newer value for the same id is) once the
\* failure has been handled, to be sent by a later flush.
C14_FailedFlushRequeued ==
    [][\A c \in Clients : \A r \in reqs \ reqs' :
          (r.from = c /\ r.phase = "failed") =>
              \A k \in Flushed(r) :
                  IF r.action = "upsertObject"
                  THEN k \in DOMAIN pendingResizeUpdatesRef'[c]
                  ELSE k \in DOMAIN pendingLayoutUpdatesRef'[c] ]_vars

RenderedAt(ns, n) ==
    IF /\ "parentId" \in DOMAIN ns[n]
       /\ ns[n].parentId \in DOMAIN ns
    THEN Pos(ns[ns[n].parentId].position.x + ns[n].position.x,
             ns[ns[n].parentId].position.y + ns[n].position.y)
    ELSE ns[n].position

\* C16: a write that moves objects leaves the layout as it is, and once a drag
\* of zone Z to a new origin (zx, zy) has been flushed and broadcast, a session
\* still pinned to Z with stored offset (dx, dy) is drawn at (zx + dx, zy + dy)
\* on every connected client.
C16_PinnedFollowsZone ==
    /\ [](Quiescent =>
            \A s \in SessIds :
                LET layout == store[TheBoard].layout
                    objects == store[TheBoard].objects
                    Z == parentId(layout, s)
                IN  ( /\ Z # NoNode
                      /\ Z \in DOMAIN objects
                      /\ Z \in DOMAIN InitBoard.objects
                      /\ Pos(objects[Z].x, objects[Z].y) #
                            Pos(InitBoard.objects[Z].x, InitBoard.objects[Z].y) )
                    => \A c \in connected :
                          /\ s \in DOMAIN nodes[c]
                          /\ RenderedAt(nodes[c], s) =
                                Pos(objects[Z].x + layout[s].x, objects[Z].y + layout[s].y))
    /\ [][store'[TheBoard].objects # store[TheBoard].objects =>
             store'[TheBoard].layout = store[TheBoard].layout]_vars

\* width and height as a pair
SizeOf(o) == [width |-> o.width, height |-> o.height]

\* both clients have resized zone Z, both writes have succeeded and everything
\* has settled
BothResized(Z) ==
    /\ Quiescent
    /\ \A c \in Clients : Z \in DOMAIN resized[c]
    /\ patched.count = 2
    /\ Z \in DOMAIN store[TheBoard].objects

C18_ParentIsZone ==
    \A b \in DOMAIN store : \A s \in DOMAIN store[b].layout :
        parentId(store[b].layout, s) # NoNode =>
            /\ parentId(store[b].layout, s) \in DOMAIN store[b].objects
            /\ store[b].objects[parentId(store[b].layout, s)].type = "zone"

\* C19: once the 'removed' event of a session has been handled, no board's
\* layout holds an entry for that session.
C19_RemovedSessionUnplaced ==
    removal.phase = "done" =>
        \A b \in DOMAIN store : removal.session \notin DOMAIN store[b].layout

\* the board snapshots a client may be handed: the board it holds, the
\* server's board and the boards of the broadcasts waiting for it
Snapshots(c) ==
    {boards[c][TheBoard], store[TheBoard]}
        \cup {inbox[c][i].board : i \in {j \in DOMAIN inbox[c] : inbox[c][j].bid = TheBoard}}

\* C20: the sync effect is idempotent: running it twice on the same board
\* snapshot leaves a client's nodes and its local positions as running it once
\* does, and neither run changes the client's set of locally deleted ids.
C20_SyncIdempotent ==
    /\ [](\A c \in Clients : \A snap \in Snapshots(c) :
          LET incoming == allNodes(snap)
              deleted == deletedObjectsRef[c]
              nodes1 == syncNodes(nodes[c], incoming, localPositionsRef[c], deleted)
              local1 == syncLocalPositions(incoming, localPositionsRef[c], deleted)
          IN  /\ syncNodes(nodes1, incoming, local1, deleted) = nodes1
              /\ syncLocalPositions(incoming, local1, deleted) = local1)
    /\ [][\A c \in Clients :
             (inbox[c] # <<>> /\ inbox'[c] = Tail(inbox[c]) /\ ~isDraggingRef[c]) =>
                 LET incoming == allNodes(boards'[c][TheBoard])
                 IN  /\ syncNodes(nodes'[c], incoming, localPositionsRef'[c],
                                  deletedObjectsRef'[c]) = nodes'[c]
                     /\ syncLocalPositions(incoming, localPositionsRef'[c],
                                           deletedObjectsRef'[c]) = localPositionsRef'[c]
                     /\ deletedObjectsRef'[c] = deletedObjectsRef[c]]_vars

\* the sync effect has run at a client that holds a locally deleted id and a
\* local position which a waiting snapshot contradicts
C20_Witness ==
    \E c \in Clients :
       /\ isSyncingRef[c]
       /\ deletedObjectsRef[c] # {}
       /\ \E snap \in Snapshots(c) :
             syncLocalPositions(allNodes(snap), localPositionsRef[c], deletedObjectsRef[c])
                 # localPositionsRef[c]

\* C21: a client that has handled every broadcast sent to it holds the
\* server's board, also when two broadcasts reached it newer first: its board
\* copy, from which the sync effect draws its nodes, does not fall back to the
\* older snapshot.
C21_NoRegression ==
    \A c \in Clients : inbox[c] = <<>> => boards[c][TheBoard] = store[TheBoard]

\* C22: every id a client puts into deletedObjectsRef on a local delete is
\* taken out of it again later, whether the removeObject call succeeds or
\* fails.
C22_TombstoneCleared ==
    \A c \in Clients : \A z \in ZoneIds :
        (z \in deletedObjectsRef[c]) ~> (z \notin deletedObjectsRef[c])

\* the nodes of a client's drag whose flush has not run: the node under the
\* pointer and the nodes dropped and buffered
InDrag(c) == ({dragging[c]} \ {NoNode}) \cup DOMAIN pendingLayoutUpdatesRef[c]

\* C23: from the drag start of a node until the flush of that drag has run,
\* no handling of an inbound board changes the position of that node in the
\* client's view.
C23_DragNotClobbered ==
    [][\A c \in Clients :
          (inbox[c] # <<>> /\ inbox'[c] = Tail(inbox[c])) =>
              \A n \in InDrag(c) \cap DOMAIN nodes[c] \cap DOMAIN nodes'[c] :
                  nodes'[c][n].position = nodes[c][n].position]_vars

\* the sync effect runs at client c in this step: a 'patched' event is handled
\* while isDraggingRef is false
SyncPass(c) ==
    /\ inbox[c] # <<>>
    /\ inbox'[c] = Tail(inbox[c])
    /\ ~isDraggingRef[c]

\* the ids of the incoming nodes of this step for which the client holds a
\* local position and which it has not deleted
OwnedIncoming(c) ==
    (DOMAIN localPositionsRef[c] \cap DOMAIN allNodes(boards'[c][TheBoard]))
        \ deletedObjectsRef[c]

\* C24: when the sync effect runs and the incoming position of a locally
\* positioned id differs from the local position by more than 1 in x or in y,
\* the node keeps the local position and the id keeps its local position entry.
C24_KeepLocalBeyondTolerance ==
    [][\A c \in Clients : SyncPass(c) =>
          \A id \in OwnedIncoming(c) :
              positionChanged(localPositionsRef[c], id,
                              allNodes(boards'[c][TheBoard])[id].position) =>
                  /\ id \in DOMAIN localPositionsRef'[c]
                  /\ nodes'[c][id].position = localPositionsRef[c][id]]_vars

\* C25: when the sync effect runs and the incoming position of a locally
\* positioned id is within 1 of the local position in x and in y, the id loses
\* its local position entry and the node takes the incoming position.
C25_AdoptWithinTolerance ==
    [][\A c \in Clients : SyncPass(c) =>
          \A id \in OwnedIncoming(c) :
              ~positionChanged(localPositionsRef[c], id,
                               allNodes(boards'[c][TheBoard])[id].position) =>
                  /\ id \notin DOMAIN localPositionsRef'[c]
                  /\ nodes'[c][id].position =
                        allNodes(boards'[c][TheBoard])[id].position]_vars

\* C26: when the sync effect runs, no id that is in deletedObjectsRef at that
\* time is among the nodes it produces, whether or not the incoming board
\* holds that id.
C26_DeletedStayOut ==
    [][\A c \in Clients : SyncPass(c) =>
          DOMAIN nodes'[c] \cap deletedObjectsRef[c] = {}]_vars

\* the sync effect has run at a client whose board copy holds a zone that the
\* client has deleted and not yet forgotten
C26_Witness ==
    \E c \in Clients : \E z \in deletedObjectsRef[c] :
       /\ isSyncingRef[c]
       /\ z \in DOMAIN boards[c][TheBoard].objects
       /\ z \notin DOMAIN nodes[c]

\* C27: after the sync effect has run, the board objects among the client's
\* nodes are those of the incoming board without the ids in deletedObjectsRef:
\* a node whose object another client deleted is gone.
C27_AbsentRemoved ==
    [][\A c \in Clients : SyncPass(c) =>
          DOMAIN nodes'[c] \cap ZoneIds =
              DOMAIN boards'[c][TheBoard].objects \ deletedObjectsRef[c]]_vars

\* the sync effect has run at a client that never deleted zone z2, and z2 is
\* gone from its board copy and from its nodes
C27_Witness ==
    \E c \in Clients :
       /\ isSyncingRef[c]
       /\ "z2" \notin everDeleted[c]
       /\ "z2" \notin DOMAIN boards[c][TheBoard].objects
       /\ "z2" \notin DOMAIN nodes[c]

\* the number of size reports React Flow still owes client c
Owed(q, c) == Len(SelectSeq(q, LAMBDA t : t.kind = "measure" /\ t.c = c))

\* C28: a 'dimensions' change that comes while isSyncingRef is set neither adds
\* to pendingResizeUpdatesRef nor sets or resets the resize timer, and so the
\* report of a size that the sync effect rendered never makes the client
\* buffer that size for persisting.
C28_NoFeedback ==
    [][\A c \in Clients :
          /\ isSyncingRef[c] =>
                /\ \A z \in DOMAIN pendingResizeUpdatesRef'[c] :
                      /\ z \in DOMAIN pendingResizeUpdatesRef[c]
                      /\ pendingResizeUpdatesRef'[c][z] = pendingResizeUpdatesRef[c][z]
                /\ resizeTimerRef'[c] \in {resizeTimerRef[c], NoTimer}
          /\ Owed(timers', c) < Owed(timers, c) =>
                /\ pendingResizeUpdatesRef'[c] = pendingResizeUpdatesRef[c]
                /\ resizeTimerRef'[c] = resizeTimerRef[c]]_vars

\* C29: when the sync effect runs, every node that is among the client's nodes
\* before and after it has the same selected flag after it as before, whether
\* the node took the incoming position, kept its local position or lost its
\* local position entry.
C29_SelectionKept ==
    [][\A c \in Clients : SyncPass(c) =>
          \A id \in DOMAIN nodes[c] \cap DOMAIN nodes'[c] :
              nodes'[c][id].selected = nodes[c][id].selected]_vars

\* the sync effect has run at a client that shows a selected node at the
\* position of its changed board copy, with a local position kept for another
\* node
C29_Witness ==
    \E c \in Clients : \E id \in DOMAIN nodes[c] :
       /\ isSyncingRef[c]
       /\ nodes[c][id].selected
       /\ boards[c][TheBoard] # InitBoard
       /\ id \notin DOMAIN localPositionsRef[c]
       /\ localPositionsRef[c] # EmptyMap

\* the object a zone edit is made on: the stored object, or for a zone just
\* drawn the object its upsertObject call carries
CurrentObject(z) ==
    IF z \in DOMAIN store[TheBoard].objects
    THEN {store[TheBoard].objects[z]}
    ELSE {r.objectData : r \in {q \in reqs : q.cont.kind = "draw" /\ q.objectId = z}}

\* C30: the upsertObject call of a label or color edit carries the zone's
\* current object in every field but the edited one (type, x, y, width,
\* height, label or color, status, trigger), also for a zone that was just
\* drawn and has not come back from the server.
C30_EditKeepsOtherFields ==
    [][\A r \in reqs' \ reqs :
          r.cont.kind = "edit" =>
              \A o \in CurrentObject(r.objectId) :
                  \A f \in ZoneFields \ DOMAIN r.cont.updates :
                      /\ f \in DOMAIN o <=> f \in DOMAIN r.objectData
                      /\ f \in DOMAIN o => r.objectData[f] = o[f]]_vars

ShownZones(ns) == {n \in DOMAIN ns : ns[n].type = "zone"}

\* C32: a drawn zone is among the client's nodes as soon as the pointer is
\* released, while the server has not stored it; when its upsertObject call is
\* rejected the node is taken away again, and the client then shows no zone
\* that the stored board does not hold.
C32_FailedDrawRolledBack ==
    [][/\ \A c \in Clients, p \in DragTargets, d \in Sizes :
             handlePointerUp(c, "z1", p, d) =>
                /\ "z1" \in ShownZones(nodes'[c])
                /\ "z1" \notin DOMAIN store'[TheBoard].objects
       /\ \A c \in Clients, r \in reqs :
             (ZoneSettled(c, r) /\ r.cont.kind = "draw" /\ r.phase = "failed") =>
                /\ r.objectId \notin DOMAIN nodes'[c]
                /\ ShownZones(nodes'[c]) \subseteq DOMAIN store'[TheBoard].objects]_vars

\* the upsertObject call of a drawn zone was rejected while its optimistic
\* node is shown
C32_Witness ==
    \E r \in reqs :
        /\ r.cont.kind = "draw"
        /\ r.phase = "failed"
        /\ r.objectId \in ShownZones(nodes[r.from])
        /\ r.objectId \notin DOMAIN store[TheBoard].objects

\* C33: while the 100 ms delay of a reconciliation pass of a client is open,
\* isSyncingRef of that client is true: the timer of an earlier pass does not
\* clear the flag under a later pass.
C33_FlagHeldUntilLastPass ==
    \A c \in Clients :
        (\E i \in DOMAIN timers : timers[i] = TimerOf("sync", c, NoNode)) => isSyncingRef[c]

\* C34: isDraggingRef, once set by a drag start, is cleared again after the
\* drag stop in every execution, so reconciliation is not skipped for ever.
C34_DraggingFlagCleared ==
    \A c \in Clients : isDraggingRef[c] ~> ~isDraggingRef[c]

\* a call of one of c's flushes is in flight
FlushInFlight(c) == \E r \in reqs : r.from = c /\ r.action # "removeObject"

TimerPending(kind, c) == \E i \in DOMAIN timers : timers[i] = TimerOf(kind, c, NoNode)

\* every entry of the buffer is in a call the step has made, as the position
\* or size sent or held for the next call of the same flush, unless it is of a
\* zone the flush passes over (deleted here, or not on the board of the closure)
Carried(buf, t, c, issued) ==
    \A k \in DOMAIN buf :
        \/ \E r \in issued :
              \/ k \in DOMAIN r.layout /\ r.layout[k] = buf[k]
              \/ k \in DOMAIN r.cont.updates /\ r.cont.updates[k] = buf[k]
              \/ k \in DOMAIN r.objects /\ Pos(r.objects[k].x, r.objects[k].y) = buf[k]
              \/ /\ r.action = "upsertObject" /\ r.objectId = k
                 /\ [width |-> r.objectData.width, height |-> r.objectData.height] = buf[k]
        \/ k \in t.zones /\ (k \in deletedObjectsRef[c] \/ k \notin DOMAIN t.board.objects)

\* the step keeps every buffered entry, or is c's flush sending all of them
KeptOrFlushed(buf, bufAfter, t, c, kind) ==
    \/ \A k \in DOMAIN buf : k \in DOMAIN bufAfter
    \/ /\ bufAfter = EmptyMap
       /\ TimerPending(kind, c)
       /\ Carried(buf, t, c, reqs' \ reqs)

C36_ResizeWritesSizeOnly ==
    [][\A r \in reqs :
          (/\ ServerWrite(r)
           /\ r.cont.kind = "resize"
           /\ r.objectId \in DOMAIN store[TheBoard].objects) =>
             LET before == store[TheBoard].objects[r.objectId]
                 after == store'[TheBoard].objects[r.objectId]
             IN  \A k \in DOMAIN before \ {"width", "height"} :
                    k \in DOMAIN after /\ after[k] = before[k]]_vars

====
